---- MODULE Spec2Model ----
(***************************************************************************)
(* NBAClient (src/the_front_office/clients/nba/client.py): the unified     *)
(* local cache of the league gamelog and the season schedule, its          *)
(* staleness policy, the retrying refresh and the queries answered from    *)
(* the cached records.                                                     *)
(*                                                                         *)
(* Time is the naive local wall clock in whole seconds since 00:00:00 of   *)
(* day 0.  A text such as updated_at is a sequence of numbers: the empty   *)
(* text is <<>>, an ISO-8601 timestamp is <<day, hour, minute, second>>.   *)
(***************************************************************************)
EXTENDS Integers, Sequences, FiniteSets, TLC

VARIABLES
    now,             \* the wall clock: datetime.now() / time.time()
    cache_data,      \* NBAClient._cache_data, the in-memory cache document
    disk,            \* the content of the cache file NBA_CACHE_FILE
    last_call_time,  \* NBAClient._last_call_time
    ret,             \* what the last operation returned (or raised)
    hist,            \* history of the last operation: its pre-state and its upstream traffic
    refreshes,       \* history: the gamelog refreshes of this process on its latest refresh day
    saved            \* history: the document of the last completed file write, if the file still holds it

vars == <<now, cache_data, disk, last_call_time, ret, hist, refreshes, saved>>

----------------------------------------------------------------------------
(* Bounds of the model *)

MaxDay == 2          \* the clock runs over days 0 .. MaxDay - 1

----------------------------------------------------------------------------
(* Program constants *)

SCHEDULE_TTL_HOURS == 24
NBA_API_DELAY == 4
HourSecs == 3600
DaySecs == 24 * HourSecs

\* PLAYER_STATS_INVALIDATION_TIMES = [dt_time(1, 0), dt_time(15, 0)], as seconds of the day
PLAYER_STATS_INVALIDATION_TIMES == <<1 * HourSecs, 15 * HourSecs>>

----------------------------------------------------------------------------
(* Wall clock and ISO-8601 texts *)

\* datetime.date(): the calendar day of an instant
DateOf(t) == t \div DaySecs

\* datetime.combine(d, time_of_day)
Combine(d, secs) == d * DaySecs + secs

\* datetime.isoformat(): the text of an instant
isoformat(t) ==
    <<t \div DaySecs, (t % DaySecs) \div HourSecs, (t % HourSecs) \div 60, t % 60>>

\* datetime.fromisoformat() accepts the text (otherwise it raises ValueError)
IsIsoText(s) ==
    /\ Len(s) = 4
    /\ s[1] >= 0
    /\ s[2] \in 0..23
    /\ s[3] \in 0..59
    /\ s[4] \in 0..59

\* datetime.fromisoformat(): the instant of an accepted text
fromisoformat(s) == s[1] * DaySecs + s[2] * HourSecs + s[3] * 60 + s[4]

\* the empty text "" and a text that is no timestamp ("25 o'clock")
EmptyText == <<>>
CorruptText == <<0, 25, 0, 0>>

----------------------------------------------------------------------------
(* Results of operations *)

Returned(v) == [raised |-> "none", value |-> v]
Raised(e) == [raised |-> e, value |-> <<>>]

----------------------------------------------------------------------------
(* The cache document *)

EmptyMap == [x \in {} |-> <<>>]

\* the structure __init__ and the failure path of _load_cache build
EmptyDoc ==
    [league_gamelog |-> [games |-> EmptyMap, updated_at |-> EmptyText],
     schedule |-> [teams |-> EmptyMap, updated_at |-> EmptyText]]

HasKey(obj, k) == k \in DOMAIN obj

----------------------------------------------------------------------------
(* Staleness *)

\* NBAClient._get_schedule_age_hours, in seconds (999.0 hours is 999 * HourSecs);
\* schedule.get("updated_at") tolerates a missing key
get_schedule_age_hours(doc, t) ==
    LET sc == doc.schedule
        updated_at == IF HasKey(sc, "updated_at") THEN sc.updated_at ELSE EmptyText
    IN  IF updated_at = EmptyText THEN 999 * HourSecs
        ELSE IF ~IsIsoText(updated_at) THEN 999 * HourSecs
        ELSE t - fromisoformat(updated_at)

\* mutant of is_schedule_stale: the schedule counts as fresh up to and including 24 hours
is_schedule_stale_InclusiveTTL(doc, t) ==
    IF ~HasKey(doc.schedule, "updated_at") THEN Raised("KeyError")
    ELSE Returned(~(/\ doc.schedule.updated_at # EmptyText
                    /\ get_schedule_age_hours(doc, t) <= SCHEDULE_TTL_HOURS * HourSecs))

\* the guard of NBAClient._ensure_schedule_loaded: TRUE when the schedule must be
\* fetched; the subscript ["updated_at"] raises KeyError on a missing key
is_schedule_stale(doc, t) ==
    IF ~HasKey(doc.schedule, "updated_at") THEN Raised("KeyError")
    ELSE Returned(~(/\ doc.schedule.updated_at # EmptyText
                    /\ get_schedule_age_hours(doc, t) < SCHEDULE_TTL_HOURS * HourSecs))

\* mutant of is_league_gamelog_stale: the test for a previous day is missing
is_league_gamelog_stale_NoDayCheck(doc, t) ==
    IF ~HasKey(doc.league_gamelog, "updated_at") THEN Raised("KeyError")
    ELSE
    LET updated_at_str == doc.league_gamelog.updated_at IN
    IF updated_at_str = EmptyText THEN Returned(TRUE)
    ELSE IF ~IsIsoText(updated_at_str) THEN Returned(TRUE)
    ELSE
    LET updated_at == fromisoformat(updated_at_str) IN
    Returned(\E i \in DOMAIN PLAYER_STATS_INVALIDATION_TIMES :
                LET boundary_dt == Combine(DateOf(t), PLAYER_STATS_INVALIDATION_TIMES[i])
                IN  updated_at < boundary_dt /\ boundary_dt <= t)

\* mutant of is_league_gamelog_stale: a boundary of today that has passed makes the
\* partition stale whether or not it was updated since
is_league_gamelog_stale_BoundaryPassed(doc, t) ==
    IF ~HasKey(doc.league_gamelog, "updated_at") THEN Raised("KeyError")
    ELSE
    LET updated_at_str == doc.league_gamelog.updated_at IN
    IF updated_at_str = EmptyText THEN Returned(TRUE)
    ELSE IF ~IsIsoText(updated_at_str) THEN Returned(TRUE)
    ELSE
    LET updated_at == fromisoformat(updated_at_str) IN
    IF DateOf(updated_at) < DateOf(t) THEN Returned(TRUE)
    ELSE Returned(\E i \in DOMAIN PLAYER_STATS_INVALIDATION_TIMES :
                    LET boundary_dt == Combine(DateOf(t), PLAYER_STATS_INVALIDATION_TIMES[i])
                    IN  boundary_dt <= t)

\* mutant of is_league_gamelog_stale: an empty updated_at counts as fresh
is_league_gamelog_stale_EmptyIsFresh(doc, t) ==
    IF ~HasKey(doc.league_gamelog, "updated_at") THEN Raised("KeyError")
    ELSE
    LET updated_at_str == doc.league_gamelog.updated_at IN
    IF updated_at_str = EmptyText THEN Returned(FALSE)
    ELSE IF ~IsIsoText(updated_at_str) THEN Returned(TRUE)
    ELSE
    LET updated_at == fromisoformat(updated_at_str) IN
    IF DateOf(updated_at) < DateOf(t) THEN Returned(TRUE)
    ELSE Returned(\E i \in DOMAIN PLAYER_STATS_INVALIDATION_TIMES :
                    LET boundary_dt == Combine(DateOf(t), PLAYER_STATS_INVALIDATION_TIMES[i])
                    IN  updated_at < boundary_dt /\ boundary_dt <= t)

\* NBAClient._is_league_gamelog_stale
is_league_gamelog_stale(doc, t) ==
    IF ~HasKey(doc.league_gamelog, "updated_at") THEN Raised("KeyError")
    ELSE
    LET updated_at_str == doc.league_gamelog.updated_at IN
    IF updated_at_str = EmptyText THEN Returned(TRUE)
    ELSE IF ~IsIsoText(updated_at_str) THEN Returned(TRUE)
    ELSE
    LET updated_at == fromisoformat(updated_at_str) IN
    IF DateOf(updated_at) < DateOf(t) THEN Returned(TRUE)
    ELSE Returned(\E i \in DOMAIN PLAYER_STATS_INVALIDATION_TIMES :
                    LET boundary_dt == Combine(DateOf(t), PLAYER_STATS_INVALIDATION_TIMES[i])
                    IN  updated_at < boundary_dt /\ boundary_dt <= t)

----------------------------------------------------------------------------
(* The upstream league gamelog and its partition by player *)

MaxSeasonDays == 7   \* the upstream season has at most this many game days

\* the names callers ask for: PlayerA plays every game day, PlayerB every other
\* one, PlayerC is traded in late, PlayerZ never plays
PlayerOrder == <<"PlayerA", "PlayerB", "PlayerC", "PlayerZ">>
PlayerNames == {PlayerOrder[i] : i \in DOMAIN PlayerOrder}

PlaysOn(p, g, roster) ==
    /\ p \in roster
    /\ CASE p = "PlayerA" -> TRUE
         [] p = "PlayerB" -> g % 2 = 1
         [] p = "PlayerC" -> g >= 5
         [] OTHER -> FALSE

\* one row of LeagueGameLog's data frame; GAME_DATE is the day number of the
\* "YYYY-MM-DD" text (the texts order as the days do), the counts are whole numbers
LeagueRow(p, g) ==
    [PLAYER_NAME |-> p, GAME_DATE |-> g,
     PTS |-> IF p = "PlayerA" THEN 10 + g ELSE 2 * g,
     REB |-> g % 4, AST |-> (g + 1) % 3, STL |-> g % 2, BLK |-> (g + 1) % 2,
     TOV |-> g % 3, FG3M |-> IF p = "PlayerA" THEN 1 ELSE 0,
     FGA |-> IF g % 3 = 0 THEN 0 ELSE 8 + g, FGM |-> IF g % 3 = 0 THEN 0 ELSE 1 + (g % 5),
     FTA |-> g % 4, FTM |-> IF g % 4 = 3 THEN 2 ELSE 0]

RECURSIVE RowsOfDay(_, _, _)
RowsOfDay(g, roster, i) ==
    IF i > Len(PlayerOrder) THEN <<>>
    ELSE (IF PlaysOn(PlayerOrder[i], g, roster) THEN <<LeagueRow(PlayerOrder[i], g)>> ELSE <<>>)
         \o RowsOfDay(g, roster, i + 1)

\* the data frame of a season of n game days, in the upstream's order (by date)
RECURSIVE LeagueGameLog(_, _)
LeagueGameLog(n, roster) ==
    IF n = 0 THEN <<>> ELSE LeagueGameLog(n - 1, roster) \o RowsOfDay(n, roster, 1)

Rosters == {{"PlayerA", "PlayerB"}, {"PlayerA", "PlayerC"}}

\* record: GameLogRecord of one row (client.py 157-170)
GameLogRecordOf(row) ==
    [GAME_DATE |-> row.GAME_DATE, PTS |-> row.PTS, REB |-> row.REB, AST |-> row.AST,
     STL |-> row.STL, BLK |-> row.BLK, TOV |-> row.TOV, FG3M |-> row.FG3M,
     FGA |-> row.FGA, FGM |-> row.FGM, FTA |-> row.FTA, FTM |-> row.FTM]

\* games_by_player[player_name].append(record), creating the list when absent
AppendTo(map, k, v) ==
    IF k \in DOMAIN map
    THEN [map EXCEPT ![k] = Append(@, v)]
    ELSE [x \in DOMAIN map \cup {k} |-> IF x = k THEN <<v>> ELSE map[x]]

\* the loop over df.itertuples() of _ensure_league_gamelog_loaded
RECURSIVE games_by_player(_)
games_by_player(rows) ==
    IF rows = <<>> THEN EmptyMap
    ELSE LET n == Len(rows)
         IN  AppendTo(games_by_player(SubSeq(rows, 1, n - 1)),
                      rows[n].PLAYER_NAME, GameLogRecordOf(rows[n]))

----------------------------------------------------------------------------
(* Rolling-window statistics *)

\* round(num / den, digits) as a whole number of 10^-digits: to nearest, an exact
\* tie to the even neighbour
RoundDiv(num, den, scale) ==
    LET q == (num * scale) \div den
        r == (num * scale) % den
    IN  IF 2 * r < den THEN q
        ELSE IF 2 * r > den THEN q + 1
        ELSE IF q % 2 = 0 THEN q ELSE q + 1

RECURSIVE SumField(_, _)
SumField(records, f) ==
    IF records = <<>> THEN 0 ELSE records[1][f] + SumField(Tail(records), f)

\* mutant of extract_9cat_from_records: the percentages are the means of the
\* per-game percentages (a game without attempts counting as 0)
RECURSIVE SumOfPct(_, _, _)
SumOfPct(records, made, tried) ==
    IF records = <<>> THEN 0
    ELSE (IF records[1][tried] > 0
          THEN RoundDiv(records[1][made], records[1][tried], 1000) ELSE 0)
         + SumOfPct(Tail(records), made, tried)

extract_9cat_from_records_MeanOfPct(records) ==
    LET n == Len(records)
        mean(f) == RoundDiv(SumField(records, f), n, 10)
    IN  [PTS |-> mean("PTS"), REB |-> mean("REB"), AST |-> mean("AST"),
         STL |-> mean("STL"), BLK |-> mean("BLK"), TOV |-> mean("TOV"),
         FG3M |-> mean("FG3M"),
         FG_PCT |-> RoundDiv(SumOfPct(records, "FGM", "FGA"), n, 1),
         FT_PCT |-> RoundDiv(SumOfPct(records, "FTM", "FTA"), n, 1)]

\* mutant of extract_9cat_from_records: the percentages are attempts over makes
extract_9cat_from_records_AttemptsOverMakes(records) ==
    LET n == Len(records)
        mean(f) == RoundDiv(SumField(records, f), n, 10)
        fga_sum == SumField(records, "FGA")
        fgm_sum == SumField(records, "FGM")
        fta_sum == SumField(records, "FTA")
        ftm_sum == SumField(records, "FTM")
    IN  [PTS |-> mean("PTS"), REB |-> mean("REB"), AST |-> mean("AST"),
         STL |-> mean("STL"), BLK |-> mean("BLK"), TOV |-> mean("TOV"),
         FG3M |-> mean("FG3M"),
         FG_PCT |-> IF fgm_sum > 0 THEN RoundDiv(fga_sum, fgm_sum, 1000) ELSE 0,
         FT_PCT |-> IF ftm_sum > 0 THEN RoundDiv(fta_sum, ftm_sum, 1000) ELSE 0]

\* mutant of extract_9cat_from_records: the counts are summed, not averaged
extract_9cat_from_records_SumNotMean(records) ==
    LET total(f) == 10 * SumField(records, f)
        fga_sum == SumField(records, "FGA")
        fgm_sum == SumField(records, "FGM")
        fta_sum == SumField(records, "FTA")
        ftm_sum == SumField(records, "FTM")
    IN  [PTS |-> total("PTS"), REB |-> total("REB"), AST |-> total("AST"),
         STL |-> total("STL"), BLK |-> total("BLK"), TOV |-> total("TOV"),
         FG3M |-> total("FG3M"),
         FG_PCT |-> IF fga_sum > 0 THEN RoundDiv(fgm_sum, fga_sum, 1000) ELSE 0,
         FT_PCT |-> IF fta_sum > 0 THEN RoundDiv(ftm_sum, fta_sum, 1000) ELSE 0]

\* NBAClient._extract_9cat_from_records; the means in tenths, the percentages
\* in thousandths
extract_9cat_from_records(records) ==
    LET n == Len(records)
        mean(f) == RoundDiv(SumField(records, f), n, 10)
        fga_sum == SumField(records, "FGA")
        fgm_sum == SumField(records, "FGM")
        fta_sum == SumField(records, "FTA")
        ftm_sum == SumField(records, "FTM")
    IN  [PTS |-> mean("PTS"), REB |-> mean("REB"), AST |-> mean("AST"),
         STL |-> mean("STL"), BLK |-> mean("BLK"), TOV |-> mean("TOV"),
         FG3M |-> mean("FG3M"),
         FG_PCT |-> IF fga_sum > 0 THEN RoundDiv(fgm_sum, fga_sum, 1000) ELSE 0,
         FT_PCT |-> IF fta_sum > 0 THEN RoundDiv(ftm_sum, fta_sum, 1000) ELSE 0]

\* list.sort(key=GAME_DATE, reverse=True): stable, descending
RECURSIVE InsertDesc(_, _)
InsertDesc(sorted, g) ==
    IF sorted = <<>> THEN <<g>>
    ELSE IF Head(sorted).GAME_DATE >= g.GAME_DATE
         THEN <<Head(sorted)>> \o InsertDesc(Tail(sorted), g)
         ELSE <<g>> \o sorted

\* mutant of SortDesc: the list is left in its stored order
SortDesc_Unsorted(games) == games

RECURSIVE SortDesc(_)
SortDesc(games) ==
    IF games = <<>> THEN <<>>
    ELSE InsertDesc(SortDesc(SubSeq(games, 1, Len(games) - 1)), games[Len(games)])

\* Python values: None and a dict
NoneValue == [kind |-> "None"]
DictValue(d) == [kind |-> "dict", d |-> d]

WindowSizes == <<5, 10, 15>>
WindowKey(count) == CASE count = 5 -> "last_5" [] count = 10 -> "last_10" [] OTHER -> "last_15"

\* mutant of stats_dict: a window needs more games than its size
stats_dict_StrictlyMore(games) ==
    LET present == {i \in DOMAIN WindowSizes : Len(games) > WindowSizes[i]}
    IN  [k \in {WindowKey(WindowSizes[i]) : i \in present} |->
            LET c == CHOOSE c \in {WindowSizes[i] : i \in present} : WindowKey(c) = k
            IN  extract_9cat_from_records(SubSeq(games, 1, c))]

\* mutant of stats_dict: only the largest window the games fill is attached
stats_dict_LargestOnly(games) ==
    LET present == {i \in DOMAIN WindowSizes : Len(games) >= WindowSizes[i]}
        largest == {i \in present : \A j \in present : WindowSizes[j] <= WindowSizes[i]}
    IN  [k \in {WindowKey(WindowSizes[i]) : i \in largest} |->
            LET c == CHOOSE c \in {WindowSizes[i] : i \in largest} : WindowKey(c) = k
            IN  extract_9cat_from_records(SubSeq(games, 1, c))]

\* the loop "for count in [5, 10, 15]" of get_player_stats over the sorted games
stats_dict(games) ==
    LET present == {i \in DOMAIN WindowSizes : Len(games) >= WindowSizes[i]}
    IN  [k \in {WindowKey(WindowSizes[i]) : i \in present} |->
            LET c == CHOOSE c \in {WindowSizes[i] : i \in present} : WindowKey(c) = k
            IN  extract_9cat_from_records(SubSeq(games, 1, c))]

\* what get_player_stats returns: "return stats_dict if stats_dict else None"
stats_result(d) == IF DOMAIN d # {} THEN DictValue(d) ELSE NoneValue

\* mutant of lookup_player_stats: the games map is subscripted, not asked with get
lookup_player_stats_Subscript(doc, full_name) ==
    IF ~HasKey(doc.league_gamelog, "games") THEN [ret |-> Raised("KeyError"), doc |-> doc]
    ELSE
    LET by_player == doc.league_gamelog.games IN
    IF full_name \notin DOMAIN by_player THEN [ret |-> Raised("KeyError"), doc |-> doc]
    ELSE IF by_player[full_name] = <<>> THEN [ret |-> Returned(NoneValue), doc |-> doc]
    ELSE
    LET games == SortDesc(by_player[full_name])
    IN  [ret |-> Returned(stats_result(stats_dict(games))),
         doc |-> [doc EXCEPT !.league_gamelog.games[full_name] = games]]

\* NBAClient.get_player_stats after _ensure_league_gamelog_loaded: the value
\* returned and the document it leaves (games.sort sorts the cached list in place)
lookup_player_stats(doc, full_name) ==
    IF ~HasKey(doc.league_gamelog, "games") THEN [ret |-> Raised("KeyError"), doc |-> doc]
    ELSE
    LET by_player == doc.league_gamelog.games IN
    IF full_name \notin DOMAIN by_player \/ by_player[full_name] = <<>>
    THEN [ret |-> Returned(NoneValue), doc |-> doc]
    ELSE
    LET games == SortDesc(by_player[full_name])
    IN  [ret |-> Returned(stats_result(stats_dict(games))),
         doc |-> [doc EXCEPT !.league_gamelog.games[full_name] = games]]

----------------------------------------------------------------------------
(* The upstream schedule and the team index *)

TeamOrder == <<"BOS", "LAL", "NYK">>
TeamCodes == {TeamOrder[i] : i \in DOMAIN TeamOrder}

\* str.upper() on the team codes callers pass
Upper(abbr) ==
    CASE abbr = "lal" -> "LAL"
      [] abbr = "bos" -> "BOS"
      [] OTHER -> abbr

\* the season's games: <<day, home, away>>, in schedule order
SeasonGames ==
    <<<<0, "LAL", "BOS">>, <<1, "BOS", "NYK">>, <<1, "LAL", "NYK">>, <<2, "NYK", "LAL">>,
      <<4, "BOS", "LAL">>>>

\* gameStatus as the upstream reports it on day asof: 3 (final) before that day,
\* 2 (live) on it, 1 (scheduled) after it; lagging, the upstream still lists
\* yesterday's games as scheduled
GameStatus(day, asof, lagging) ==
    IF day < asof THEN (IF lagging /\ day = asof - 1 THEN 1 ELSE 3)
    ELSE IF day = asof THEN 2 ELSE 1

\* ScheduleLeagueV2().get_dict()["leagueSchedule"]["gameDates"], flattened; of the
\* games of day asof the one in Los Angeles has begun, the others are yet to begin
ScheduleLeagueV2(asof, lagging) ==
    [i \in DOMAIN SeasonGames |->
        [gameDateEst |-> SeasonGames[i][1],
         gameStatus |-> IF SeasonGames[i][1] = asof /\ SeasonGames[i][2] # "LAL" THEN 1
                        ELSE GameStatus(SeasonGames[i][1], asof, lagging),
         homeTeam |-> SeasonGames[i][2], awayTeam |-> SeasonGames[i][3]]]

\* game_info of one upstream game (client.py 249-254)
GameRecordOf(game) ==
    [date |-> game.gameDateEst, status |-> game.gameStatus,
     home |-> game.homeTeam, away |-> game.awayTeam]

\* mutant of team_games: a game is appended to its home team's list only
RECURSIVE team_games_HomeOnly(_)
team_games_HomeOnly(games) ==
    IF games = <<>> THEN EmptyMap
    ELSE LET n == Len(games)
             game_info == GameRecordOf(games[n])
         IN  AppendTo(team_games_HomeOnly(SubSeq(games, 1, n - 1)), game_info.home, game_info)

\* the loops of _ensure_schedule_loaded: setdefault(home, []).append(game_info),
\* then setdefault(away, []).append(game_info)
RECURSIVE team_games(_)
team_games(games) ==
    IF games = <<>> THEN EmptyMap
    ELSE LET n == Len(games)
             game_info == GameRecordOf(games[n])
         IN  AppendTo(AppendTo(team_games(SubSeq(games, 1, n - 1)), game_info.home, game_info),
                      game_info.away, game_info)

\* mutant of count_remaining: the test against today is missing
RECURSIVE count_remaining_NoTodayCheck(_, _, _, _)
count_remaining_NoTodayCheck(games, start_date, end_date, today) ==
    IF games = <<>> THEN 0
    ELSE LET g == Head(games)
             hit == /\ start_date <= g.date /\ g.date <= end_date
                    /\ g.status \in {1, 2}
         IN  (IF hit THEN 1 ELSE 0)
             + count_remaining_NoTodayCheck(Tail(games), start_date, end_date, today)

\* the counting loop of NBAClient.get_remaining_games over one team's list
RECURSIVE count_remaining(_, _, _, _)
count_remaining(games, start_date, end_date, today) ==
    IF games = <<>> THEN 0
    ELSE LET g == Head(games)
             hit == /\ start_date <= g.date /\ g.date <= end_date /\ g.date >= today
                    /\ g.status \in {1, 2}
         IN  (IF hit THEN 1 ELSE 0) + count_remaining(Tail(games), start_date, end_date, today)

----------------------------------------------------------------------------
(* The cache file: JSON text, json.dumps and json.loads *)

\* A JSON object text is the sequence of its members <<key, value text>>; a
\* value of the document is an object, null or an array.
JObject(members) == [t |-> "object", m |-> members]
JNull == [t |-> "null"]
JArray == [t |-> "array"]

\* the file: absent, bytes that are no JSON, or a JSON text
FileMissing == [kind |-> "missing"]
FileGarbage == [kind |-> "garbage"]
FileJson(v) == [kind |-> "json", value |-> v]

Put(map, k, v) == [x \in DOMAIN map \cup {k} |-> IF x = k THEN v ELSE map[x]]

\* json.loads of an object text: a dict, a repeated key keeping its last value
RECURSIVE ParseObject(_)
ParseObject(members) ==
    IF members = <<>> THEN EmptyMap
    ELSE LET n == Len(members)
         IN  Put(ParseObject(SubSeq(members, 1, n - 1)), members[n][1], members[n][2])

\* json.loads of a partition: its "games" / "teams" member is an object itself
ParsePartition(members) ==
    LET p == ParseObject(members)
    IN  [k \in DOMAIN p |-> IF k \in {"games", "teams"} THEN ParseObject(p[k]) ELSE p[k]]

\* json.dumps of a dict: its members, keys in the order given
RECURSIVE DumpObject(_, _)
DumpObject(map, order) ==
    IF order = <<>> THEN <<>>
    ELSE (IF Head(order) \in DOMAIN map THEN <<<<Head(order), map[Head(order)]>>>> ELSE <<>>)
         \o DumpObject(map, Tail(order))

\* mutant of DumpPartition: only the map is written, updated_at is left out
DumpPartition_MapOnly(p, map_key, key_order) ==
    JObject(DumpObject([k \in DOMAIN p |->
                           IF k = map_key THEN DumpObject(p[k], key_order) ELSE p[k]],
                       <<map_key>>))

\* json.dumps of a partition: its map and its updated_at
DumpPartition(p, map_key, key_order) ==
    JObject(DumpObject([k \in DOMAIN p |->
                           IF k = map_key THEN DumpObject(p[k], key_order) ELSE p[k]],
                       <<map_key, "updated_at">>))

\* json.dumps(self._cache_data)
dumps(doc) ==
    JObject(<<<<"league_gamelog", DumpPartition(doc.league_gamelog, "games", PlayerOrder)>>,
              <<"schedule", DumpPartition(doc.schedule, "teams", TeamOrder)>>>>)

\* NBAClient._load_cache: the document the client holds after it; prior is the
\* structure __init__ built
load_cache(file, prior) ==
    IF file.kind = "missing" THEN prior
    ELSE IF file.kind = "garbage" THEN EmptyDoc              \* json.loads raises
    ELSE IF file.value.t # "object" THEN EmptyDoc            \* raw_data.get raises
    ELSE
    LET raw_data == ParseObject(file.value.m)
        has_lg == "league_gamelog" \in DOMAIN raw_data
        has_sc == "schedule" \in DOMAIN raw_data
    IN  IF has_lg /\ raw_data["league_gamelog"].t # "object" THEN EmptyDoc  \* [...]['games'] raises
        ELSE IF has_sc /\ raw_data["schedule"].t # "object" THEN EmptyDoc   \* schedule.get raises
        ELSE
        LET league_gamelog == IF has_lg THEN ParsePartition(raw_data["league_gamelog"].m)
                              ELSE EmptyDoc.league_gamelog
            schedule == IF has_sc THEN ParsePartition(raw_data["schedule"].m)
                        ELSE EmptyDoc.schedule
        IN  IF ~HasKey(league_gamelog, "games") THEN EmptyDoc               \* KeyError
            ELSE [league_gamelog |-> league_gamelog, schedule |-> schedule]

\* Path.write_text: the write succeeds, fails before the file is opened, or fails
\* after the file was truncated
WriteOutcomes == {"ok", "denied", "partial"}

\* mutant of save_cache: a partition of the file stamped later than the client's
\* is kept
save_cache_KeepsNewerPartitions(doc, file, write) ==
    LET on == load_cache(file, EmptyDoc)
        stamp(p) == IF HasKey(p, "updated_at") /\ IsIsoText(p.updated_at)
                    THEN fromisoformat(p.updated_at) ELSE -1
        later(a, b) == IF stamp(a) > stamp(b) THEN a ELSE b
    IN  CASE write = "ok" ->
                 FileJson(dumps([league_gamelog |-> later(on.league_gamelog, doc.league_gamelog),
                                 schedule |-> later(on.schedule, doc.schedule)]))
          [] write = "denied" -> file
          [] OTHER -> FileGarbage

\* NBAClient._save_cache: the file after it (the exception is logged, not raised)
save_cache(doc, file, write) ==
    CASE write = "ok" -> FileJson(dumps(doc))
      [] write = "denied" -> file
      [] OTHER -> FileGarbage

----------------------------------------------------------------------------
(* The client at work: m is the client and its surroundings in the middle of   *)
(* an operation:  t the clock, last _last_call_time, doc _cache_data, file the *)
(* cache file, raised the exception that left the operation (or "none"), and   *)
(* the operation's trace: waits (the instants wait returned), reqs (upstream   *)
(* requests), sleeps (backoff sleeps), writes (attempted file writes), dumped  *)
(* (the document of the last attempted write), fetched (the partitions         *)
(* replaced).                                                                  *)

\* mutant of DefaultRetries: the loop has no bound worth the name
DefaultRetries_Unbounded == HourSecs

DefaultRetries == 2

Machine(t, last, doc, file) ==
    [t |-> t, last |-> last, doc |-> doc, file |-> file, raised |-> "none",
     waits |-> <<>>, reqs |-> <<>>, sleeps |-> <<>>, writes |-> 0, dumped |-> doc,
     fetched |-> {}]

\* mutant of wait_for_rate_limit: the instant is recorded but nothing is slept
wait_for_rate_limit_NoSleep(m) ==
    [m EXCEPT !.last = m.t, !.waits = Append(@, m.t)]

\* NBAClient._wait_for_rate_limit
wait_for_rate_limit(m) ==
    LET elapsed == m.t - m.last
        woke == IF elapsed < NBA_API_DELAY THEN m.t + (NBA_API_DELAY - elapsed) ELSE m.t
    IN  [m EXCEPT !.t = woke, !.last = woke, !.waits = Append(@, woke)]

\* one upstream request of the given kind, taking dur seconds
Request(m, kind, dur) ==
    [m EXCEPT !.reqs = Append(@, [kind |-> kind, at |-> m.t]), !.t = @ + dur]

\* 2 ** attempt
RECURSIVE Pow2(_)
Pow2(n) == IF n = 0 THEN 1 ELSE 2 * Pow2(n - 1)

\* time.sleep(backoff_time)
Sleep(m, secs) == [m EXCEPT !.t = @ + secs, !.sleeps = Append(@, secs)]

\* mutant of Save: the exception of a failed write is not caught
Save_Raises(m, write) ==
    [m EXCEPT !.file = save_cache(m.doc, m.file, write), !.writes = @ + 1, !.dumped = m.doc,
              !.raised = IF write = "ok" THEN @ ELSE "OSError"]

\* self._save_cache() inside an operation
Save(m, write) ==
    [m EXCEPT !.file = save_cache(m.doc, m.file, write), !.writes = @ + 1, !.dumped = m.doc]

\* mutant of StoreGamelog: the whole document is replaced, the schedule emptied
StoreGamelog_WholeDocument(m, rows, write) ==
    Save([m EXCEPT !.doc = [league_gamelog |-> [games |-> games_by_player(rows),
                                                updated_at |-> isoformat(m.t)],
                            schedule |-> EmptyDoc.schedule],
                   !.fetched = @ \cup {"league_gamelog"}],
         write)

\* mutant of StoreGamelog: the fetched players are merged into the old map
StoreGamelog_Merge(m, rows, write) ==
    LET old == m.doc.league_gamelog.games
        new == games_by_player(rows)
    IN  Save([m EXCEPT !.doc.league_gamelog =
                           [games |-> [p \in DOMAIN old \cup DOMAIN new |->
                                          IF p \in DOMAIN new THEN new[p] ELSE old[p]],
                            updated_at |-> isoformat(m.t)],
                       !.fetched = @ \cup {"league_gamelog"}],
             write)

\* lines 175-180: the partition is replaced, stamped and persisted
StoreGamelog(m, rows, write) ==
    Save([m EXCEPT !.doc.league_gamelog =
                       [games |-> games_by_player(rows), updated_at |-> isoformat(m.t)],
                   !.fetched = @ \cup {"league_gamelog"}],
         write)

\* mutant of gamelog_attempts: the backoff sleep follows every failed attempt,
\* the last one included
RECURSIVE gamelog_attempts_SleepAfterLast(_, _, _, _, _, _, _)
gamelog_attempts_SleepAfterLast(m, attempt, retries, fails, rows, dur, write) ==
    IF attempt > retries THEN m
    ELSE LET r == Request(wait_for_rate_limit(m), "gamelog", dur)
         IN  IF attempt >= fails THEN StoreGamelog(r, rows, write)
             ELSE gamelog_attempts_SleepAfterLast(Sleep(r, Pow2(attempt) * 5), attempt + 1,
                                                  retries, fails, rows, dur, write)

\* the retry loop of _ensure_league_gamelog_loaded from the given attempt on;
\* the attempts numbered below fails raise, the next one succeeds
RECURSIVE gamelog_attempts(_, _, _, _, _, _, _)
gamelog_attempts(m, attempt, retries, fails, rows, dur, write) ==
    IF attempt > retries THEN m
    ELSE LET r == Request(wait_for_rate_limit(m), "gamelog", dur)
         IN  IF attempt >= fails THEN StoreGamelog(r, rows, write)
             ELSE IF attempt < retries
                  THEN gamelog_attempts(Sleep(r, Pow2(attempt) * 5), attempt + 1,
                                        retries, fails, rows, dur, write)
                  ELSE r

\* mutant of ensure_league_gamelog_loaded: when the retries are exhausted the
\* partition is emptied
ensure_league_gamelog_loaded_ClearOnFailure(m, retries, fails, rows, dur, write) ==
    LET stale == is_league_gamelog_stale(m.doc, m.t)
    IN  IF stale.raised # "none" THEN [m EXCEPT !.raised = stale.raised]
        ELSE IF ~stale.value THEN m
        ELSE LET r == gamelog_attempts(m, 0, retries, fails, rows, dur, write)
             IN  IF "league_gamelog" \in r.fetched THEN r
                 ELSE [r EXCEPT !.doc.league_gamelog = EmptyDoc.league_gamelog]

\* mutant of ensure_league_gamelog_loaded: when the retries are exhausted the
\* partition is stamped, so that the failure counts as a refresh
ensure_league_gamelog_loaded_StampsFailure(m, retries, fails, rows, dur, write) ==
    LET stale == is_league_gamelog_stale(m.doc, m.t)
    IN  IF stale.raised # "none" THEN [m EXCEPT !.raised = stale.raised]
        ELSE IF ~stale.value THEN m
        ELSE LET r == gamelog_attempts(m, 0, retries, fails, rows, dur, write)
             IN  IF "league_gamelog" \in r.fetched THEN r
                 ELSE [r EXCEPT !.doc.league_gamelog.updated_at = isoformat(r.t)]

\* mutant of ensure_league_gamelog_loaded: the loop runs one attempt more
ensure_league_gamelog_loaded_OneMoreAttempt(m, retries, fails, rows, dur, write) ==
    LET stale == is_league_gamelog_stale(m.doc, m.t)
    IN  IF stale.raised # "none" THEN [m EXCEPT !.raised = stale.raised]
        ELSE IF ~stale.value THEN m
        ELSE gamelog_attempts(m, 0, retries + 1, fails, rows, dur, write)

\* mutant of ensure_league_gamelog_loaded: the staleness check is not consulted
ensure_league_gamelog_loaded_AlwaysFetch(m, retries, fails, rows, dur, write) ==
    LET stale == is_league_gamelog_stale(m.doc, m.t)
    IN  IF stale.raised # "none" THEN [m EXCEPT !.raised = stale.raised]
        ELSE gamelog_attempts(m, 0, retries, fails, rows, dur, write)

\* NBAClient._ensure_league_gamelog_loaded
ensure_league_gamelog_loaded(m, retries, fails, rows, dur, write) ==
    LET stale == is_league_gamelog_stale(m.doc, m.t)
    IN  IF stale.raised # "none" THEN [m EXCEPT !.raised = stale.raised]
        ELSE IF ~stale.value THEN m
        ELSE gamelog_attempts(m, 0, retries, fails, rows, dur, write)

\* mutant of StoreSchedule: the teams are replaced, updated_at is left as it was
StoreSchedule_KeepsStamp(m, games, write) ==
    Save([m EXCEPT !.doc.schedule =
                       [teams |-> team_games(games), updated_at |-> m.doc.schedule.updated_at],
                   !.fetched = @ \cup {"schedule"}],
         write)

\* mutant of StoreSchedule: the refreshed partition is not persisted
StoreSchedule_NotSaved(m, games, write) ==
    [m EXCEPT !.doc.schedule = [teams |-> team_games(games), updated_at |-> isoformat(m.t)],
              !.fetched = @ \cup {"schedule"}]

\* lines 258-262
StoreSchedule(m, games, write) ==
    Save([m EXCEPT !.doc.schedule =
                       [teams |-> team_games(games), updated_at |-> isoformat(m.t)],
                   !.fetched = @ \cup {"schedule"}],
         write)

\* mutant of ensure_schedule_loaded: a failed request empties the partition
ensure_schedule_loaded_ClearOnFailure(m, ok, games, dur, write) ==
    LET stale == is_schedule_stale(m.doc, m.t)
    IN  IF stale.raised # "none" THEN [m EXCEPT !.raised = stale.raised]
        ELSE IF ~stale.value THEN m
        ELSE LET r == Request(wait_for_rate_limit(m), "schedule", dur)
             IN  IF ok THEN StoreSchedule(r, games, write)
                 ELSE [r EXCEPT !.doc.schedule = EmptyDoc.schedule]

\* mutant of ensure_schedule_loaded: the request is issued without the wait
ensure_schedule_loaded_NoWait(m, ok, games, dur, write) ==
    LET stale == is_schedule_stale(m.doc, m.t)
    IN  IF stale.raised # "none" THEN [m EXCEPT !.raised = stale.raised]
        ELSE IF ~stale.value THEN m
        ELSE LET r == Request(m, "schedule", dur)
             IN  IF ok THEN StoreSchedule(r, games, write) ELSE r

\* NBAClient._ensure_schedule_loaded; ok: the one request succeeds
ensure_schedule_loaded(m, ok, games, dur, write) ==
    LET stale == is_schedule_stale(m.doc, m.t)
    IN  IF stale.raised # "none" THEN [m EXCEPT !.raised = stale.raised]
        ELSE IF ~stale.value THEN m
        ELSE LET r == Request(wait_for_rate_limit(m), "schedule", dur)
             IN  IF ok THEN StoreSchedule(r, games, write) ELSE r

\* NBAClient.get_player_stats: the client after it and the value returned
get_player_stats(m, full_name, retries, fails, rows, dur, write) ==
    LET e == ensure_league_gamelog_loaded(m, retries, fails, rows, dur, write)
    IN  IF e.raised # "none" THEN [m |-> e, ret |-> Raised(e.raised), ensured |-> e.doc]
        ELSE LET l == lookup_player_stats(e.doc, full_name)
             IN  [m |-> [e EXCEPT !.doc = l.doc, !.raised = l.ret.raised],
                  ret |-> l.ret, ensured |-> e.doc]

\* NBAClient.get_remaining_games
get_remaining_games(m, team_abbr, start_date, end_date, ok, sched, dur, write) ==
    LET e == ensure_schedule_loaded(m, ok, sched, dur, write)
    IN  IF e.raised # "none" THEN [m |-> e, ret |-> Raised(e.raised)]
        ELSE IF ~HasKey(e.doc.schedule, "teams")
        THEN [m |-> [e EXCEPT !.raised = "KeyError"], ret |-> Raised("KeyError")]
        ELSE LET teams == e.doc.schedule.teams
                 games == IF Upper(team_abbr) \in DOMAIN teams THEN teams[Upper(team_abbr)]
                          ELSE <<>>
             IN  [m |-> e,
                  ret |-> Returned(count_remaining(games, start_date, end_date, DateOf(e.t)))]

\* the dict comprehension of get_remaining_games_bulk over the abbreviations in
\* the order the set yields them; oks[i] is the outcome of the i-th call's request
RECURSIVE bulk_loop(_, _, _, _, _, _, _, _, _)
bulk_loop(m, acc, abbrs, start_date, end_date, oks, sched, dur, write) ==
    IF abbrs = <<>> THEN [m |-> m, ret |-> Returned(DictValue(acc))]
    ELSE LET r == get_remaining_games(m, Head(abbrs), start_date, end_date,
                                      Head(oks), sched, dur, write)
         IN  IF r.ret.raised # "none" THEN r
             ELSE bulk_loop(r.m, Put(acc, Upper(Head(abbrs)), r.ret.value), Tail(abbrs),
                            start_date, end_date, Tail(oks), sched, dur, write)

\* NBAClient.get_remaining_games_bulk
get_remaining_games_bulk(m, abbrs, start_date, end_date, oks, sched, dur, write) ==
    LET e == ensure_schedule_loaded(m, Head(oks), sched, dur, write)
    IN  IF e.raised # "none" THEN [m |-> e, ret |-> Raised(e.raised)]
        ELSE bulk_loop(e, EmptyMap, abbrs, start_date, end_date, Tail(oks), sched, dur, write)

----------------------------------------------------------------------------
(* The stand-alone NBAScheduleClient (clients/nba/schedule.py): its schedule   *)
(* is fetched or loaded once, by the constructor.  In m, doc is _schedule and  *)
(* file is the schedule cache file, {"cached_at": ..., "teams": ...}.          *)

\* mutant of fetch_and_cache: a failed request is cached as an empty schedule
fetch_and_cache_CachesFailure(m, ok, games, dur, write) ==
    LET r == Request(m, "schedule", dur)
        teams == IF ok THEN team_games(games) ELSE EmptyMap
        text == FileJson(JObject(<<<<"cached_at", isoformat(r.t)>>,
                                   <<"teams", DumpObject(teams, TeamOrder)>>>>))
    IN  CASE write = "ok" ->
                 [r EXCEPT !.doc = teams, !.file = text, !.writes = IF ok THEN 1 ELSE 0,
                           !.fetched = IF ok THEN {"schedule"} ELSE {}]
          [] write = "denied" ->
                 [r EXCEPT !.doc = EmptyMap, !.writes = IF ok THEN 1 ELSE 0,
                           !.fetched = IF ok THEN {"schedule"} ELSE {}]
          [] OTHER ->
                 [r EXCEPT !.doc = EmptyMap, !.file = FileGarbage,
                           !.writes = IF ok THEN 1 ELSE 0,
                           !.fetched = IF ok THEN {"schedule"} ELSE {}]

\* NBAScheduleClient._fetch_and_cache: the request, the team index, the write of
\* the cache file; any exception of the try block, the write's included, leaves
\* _schedule empty (line 86)
fetch_and_cache(m, ok, games, dur, write) ==
    LET r == Request(m, "schedule", dur)
        teams == team_games(games)
        text == FileJson(JObject(<<<<"cached_at", isoformat(r.t)>>,
                                   <<"teams", DumpObject(teams, TeamOrder)>>>>))
    IN  IF ~ok THEN [r EXCEPT !.doc = EmptyMap]
        ELSE CASE write = "ok" ->
                      [r EXCEPT !.doc = teams, !.file = text, !.writes = @ + 1,
                                !.fetched = @ \cup {"schedule"}]
               [] write = "denied" ->
                      [r EXCEPT !.doc = EmptyMap, !.writes = @ + 1,
                                !.fetched = @ \cup {"schedule"}]
               [] OTHER ->
                      [r EXCEPT !.doc = EmptyMap, !.file = FileGarbage, !.writes = @ + 1,
                                !.fetched = @ \cup {"schedule"}]

\* NBAScheduleClient._load_schedule: the cached teams when the file is readable
\* and less than CACHE_MAX_AGE_HOURS = 24 hours old, a fetch otherwise
load_schedule(m, ok, games, dur, write) ==
    LET readable == m.file.kind = "json" /\ m.file.value.t = "object"
        raw == ParseObject(m.file.value.m)
        fresh == /\ readable
                 /\ "cached_at" \in DOMAIN raw
                 /\ IsIsoText(raw["cached_at"])
                 /\ m.t - fromisoformat(raw["cached_at"]) < 24 * HourSecs
                 /\ "teams" \in DOMAIN raw
    IN  IF fresh THEN [m EXCEPT !.doc = ParseObject(raw["teams"])]
        ELSE fetch_and_cache(m, ok, games, dur, write)

----------------------------------------------------------------------------
(* The environment: the clock, the upstream's answers, the files found at start *)

MaxOpsPerTick == 2   \* operations between two observations of the clock

\* the instants the clock is observed at between operations (seconds of the day):
\* 00:30, 00:59:58, 14:59:58, 15:01
TimesOfDay == {1800, 3598, 53998, 54060}
ClockDays == 1..MaxDay
Grid == {Combine(d, s) : d \in ClockDays, s \in TimesOfDay}
StartTime == Combine(1, 1800)
EndOfTime == Combine(MaxDay + 1, 0)

\* seconds an upstream request takes
FetchDurations == {0, 1}

\* the upstream's league gamelog: the season so far and who played in it
UpstreamSeasons ==
    {<<MaxSeasonDays - 1, {"PlayerA", "PlayerB"}>>, <<MaxSeasonDays, {"PlayerA", "PlayerC"}>>}

\* what a stale call meets: the caller's retries, the attempts that fail before
\* one succeeds (retries + 1: all fail, and no write is attempted), the upstream's
\* answer, the duration of a request, the outcome of the file write
GamelogInputs ==
    {in \in [retries : {0, DefaultRetries}, fails : 0..(DefaultRetries + 1),
             season : UpstreamSeasons, dur : FetchDurations, write : WriteOutcomes] :
        /\ in.fails <= in.retries + 1
        /\ in.fails = in.retries + 1 => in.write = "ok"}

\* the input of a call that finds the partition fresh: no input is consulted
NoGamelogInput ==
    [retries |-> DefaultRetries, fails |-> 0,
     season |-> <<MaxSeasonDays - 1, {"PlayerA", "PlayerB"}>>, dur |-> 0, write |-> "ok"]

ScheduleInputs == [ok : BOOLEAN, lagging : BOOLEAN, dur : FetchDurations, write : WriteOutcomes]
NoScheduleInput == [ok |-> TRUE, lagging |-> FALSE, dur |-> 0, write |-> "ok"]

QueryNames == {"PlayerA", "PlayerB", "PlayerZ"}
TeamArgs == {"lal", "BOS", "XXX"}
DateRanges == {<<1, 3>>, <<2, 2>>}

\* team_abbrs of a bulk call, in the order set(team_abbrs) yields them
BulkArgs == {<<>>, <<"LAL", "lal">>, <<"BOS", "XXX">>, <<"XXX", "BOS">>}
BulkRanges == {<<1, 3>>}

\* a document as an earlier run of the program left it
SavedDoc(lg_updated_at, sc_updated_at) ==
    [league_gamelog |-> [games |-> games_by_player(LeagueGameLog(5, {"PlayerA", "PlayerB"})),
                         updated_at |-> lg_updated_at],
     schedule |-> [teams |-> team_games(ScheduleLeagueV2(0, FALSE)),
                   updated_at |-> sc_updated_at]]

\* an object text without the member of the given key
RECURSIVE DropMember(_, _)
DropMember(members, k) ==
    IF members = <<>> THEN <<>>
    ELSE (IF Head(members)[1] = k THEN <<>> ELSE <<Head(members)>>) \o DropMember(Tail(members), k)

\* the saved text with one member of one partition dropped
WithoutField(doc, partition, k) ==
    LET lg == DumpPartition(doc.league_gamelog, "games", PlayerOrder)
        sc == DumpPartition(doc.schedule, "teams", TeamOrder)
    IN  JObject(<<<<"league_gamelog",
                    IF partition = "league_gamelog" THEN JObject(DropMember(lg.m, k)) ELSE lg>>,
                  <<"schedule",
                    IF partition = "schedule" THEN JObject(DropMember(sc.m, k)) ELSE sc>>>>)

Yesterday23 == isoformat(Combine(0, 82800))
Today0010 == isoformat(Combine(1, 600))
Yesterday0010 == isoformat(Combine(0, 600))

WellFormedFiles ==
    {FileJson(dumps(SavedDoc(Yesterday23, Yesterday23))),
     FileJson(dumps(SavedDoc(Today0010, Yesterday0010))),
     FileJson(dumps(SavedDoc(CorruptText, CorruptText))),
     FileJson(dumps(EmptyDoc))}

MalformedFiles ==
    {FileJson(JArray),
     FileJson(WithoutField(SavedDoc(Today0010, Today0010), "league_gamelog", "updated_at")),
     FileJson(WithoutField(SavedDoc(Today0010, Today0010), "league_gamelog", "games")),
     FileJson(WithoutField(SavedDoc(Today0010, Today0010), "schedule", "teams")),
     FileJson(WithoutField(SavedDoc(Today0010, Today0010), "schedule", "updated_at")),
     FileJson(JObject(DropMember(dumps(SavedDoc(Today0010, Today0010)).m, "league_gamelog"))),
     FileJson(JObject(DropMember(dumps(SavedDoc(Today0010, Today0010)).m, "schedule"))),
     FileJson(JObject(<<<<"league_gamelog", JNull>>,
                        <<"schedule", DumpPartition(SavedDoc(Today0010, Today0010).schedule,
                                                    "teams", TeamOrder)>>>>)),
     FileJson(JObject(<<<<"league_gamelog",
                          DumpPartition(SavedDoc(Today0010, Today0010).league_gamelog,
                                        "games", PlayerOrder)>>,
                        <<"schedule", JNull>>>>))}

InitialFiles == {FileMissing, FileGarbage} \cup WellFormedFiles \cup MalformedFiles

\* the files a long-running client starts from
StartFiles ==
    {FileMissing, FileJson(dumps(SavedDoc(Yesterday23, Yesterday23))),
     FileJson(dumps(SavedDoc(Today0010, Yesterday0010)))}

----------------------------------------------------------------------------
(* The state machine *)

NothingSaved == [some |-> FALSE]
SavedIs(doc) == [some |-> TRUE, doc |-> doc]

NoRefreshes == [day |-> 0, n |-> 0, all_ok |-> TRUE]

Here == Machine(now, last_call_time, cache_data, disk)

\* the history of an operation that ran from the current state to machine m;
\* k counts the operations since the clock was last observed
HistOf(op, arg, retries, write, m, k) ==
    [op |-> op, arg |-> arg, k |-> k, retries |-> retries, write |-> write,
     waits |-> m.waits, reqs |-> m.reqs, sleeps |-> m.sleeps, writes |-> m.writes,
     fetched |-> m.fetched]

\* the file write of the operation, if any, and what remains of an earlier one
SavedAfter(m, write) ==
    IF m.writes = 0 THEN saved
    ELSE CASE write = "ok" -> SavedIs(m.dumped)
           [] write = "denied" -> saved
           [] OTHER -> NothingSaved

\* the count of gamelog refreshes on the day the latest one was stamped
RefreshesAfter(m, failed) ==
    LET all_ok == refreshes.all_ok /\ ~failed IN
    IF "league_gamelog" \notin m.fetched THEN [refreshes EXCEPT !.all_ok = all_ok]
    ELSE LET day == DateOf(fromisoformat(m.doc.league_gamelog.updated_at))
         IN  [day |-> day, n |-> IF day = refreshes.day THEN refreshes.n + 1 ELSE 1,
              all_ok |-> all_ok]

\* the state after construction, NBAClient(), with the given file on disk
Constructed(t, file) ==
    /\ now = t
    /\ disk = file
    /\ cache_data = load_cache(file, EmptyDoc)
    /\ last_call_time = 0
    /\ ret = Returned(NoneValue)
    /\ hist = HistOf("init", "", 0, "ok", Machine(t, 0, EmptyDoc, file), 0)
    /\ refreshes = NoRefreshes
    /\ saved = NothingSaved

\* the clock moves on between two operations
ClockMoves(grid) ==
    \E t \in grid :
        /\ t > now
        /\ now' = t
        /\ hist' = HistOf("tick", "", 0, "ok", Here, 0)
        /\ ret' = Returned(NoneValue)
        /\ UNCHANGED <<cache_data, disk, last_call_time, refreshes, saved>>

\* a new process starts: NBAClient.__init__
Restart ==
    /\ hist.op # "init"
    /\ now' = now
    /\ cache_data' = load_cache(disk, EmptyDoc)
    /\ last_call_time' = 0
    /\ ret' = Returned(NoneValue)
    /\ hist' = HistOf("init", "", 0, "ok", Here, hist.k)
    /\ refreshes' = NoRefreshes
    /\ UNCHANGED <<disk, saved>>

GamelogFetchNeeded ==
    LET stale == is_league_gamelog_stale(cache_data, now)
    IN  stale.raised = "none" /\ stale.value

ScheduleFetchNeeded ==
    LET stale == is_schedule_stale(cache_data, now)
    IN  stale.raised = "none" /\ stale.value

\* the longest an operation can take: three waits, three requests, two sleeps
MayCall == hist.k < MaxOpsPerTick /\ now + 3 * NBA_API_DELAY + 3 + 5 + 10 < EndOfTime

\* the state after an operation that ended in machine m returning ret
After(r, op, arg, retries, write) ==
    /\ now' = r.m.t
    /\ cache_data' = r.m.doc
    /\ disk' = r.m.file
    /\ last_call_time' = r.m.last
    /\ ret' = r.ret
    /\ hist' = HistOf(op, arg, retries, write, r.m, hist.k + 1)
    /\ saved' = SavedAfter(r.m, write)

Do_get_player_stats(names, inputs) ==
    \E full_name \in names, in \in IF GamelogFetchNeeded THEN inputs ELSE {NoGamelogInput} :
        LET r == get_player_stats(Here, full_name, in.retries, in.fails,
                                  LeagueGameLog(in.season[1], in.season[2]), in.dur, in.write)
        IN  /\ MayCall
            /\ After(r, "get_player_stats", full_name, in.retries, in.write)
            /\ refreshes' = RefreshesAfter(r.m, Len(r.m.reqs) > 0 /\ in.fails > 0)

Do_get_remaining_games(teams, ranges, inputs) ==
    \E team_abbr \in teams, range \in ranges,
       in \in IF ScheduleFetchNeeded THEN inputs ELSE {NoScheduleInput} :
        LET r == get_remaining_games(Here, team_abbr, range[1], range[2], in.ok,
                                     ScheduleLeagueV2(DateOf(now), in.lagging), in.dur, in.write)
        IN  /\ MayCall
            /\ After(r, "get_remaining_games", <<team_abbr, range>>, 0, in.write)
            /\ refreshes' = refreshes

Do_get_remaining_games_bulk(args, ranges, inputs) ==
    \E abbrs \in args, range \in ranges,
       in \in IF ScheduleFetchNeeded THEN inputs ELSE {NoScheduleInput} :
    \E later \in IF ScheduleFetchNeeded THEN [1..Len(abbrs) -> BOOLEAN]
                 ELSE {[i \in 1..Len(abbrs) |-> TRUE]} :
        LET oks == <<in.ok>> \o later
            r == get_remaining_games_bulk(Here, abbrs, range[1], range[2], oks,
                                          ScheduleLeagueV2(DateOf(now), in.lagging),
                                          in.dur, in.write)
        IN  /\ MayCall
            /\ After(r, "get_remaining_games_bulk", <<abbrs, range>>, 0, in.write)
            /\ refreshes' = refreshes

----------------------------------------------------------------------------
(* Spec: the whole client, started from every kind of cache file, over the     *)
(* change of day, with one upstream answer per request kind                    *)

SpecGrid == {Combine(d, 1800) : d \in ClockDays}

SpecGamelogInputs ==
    {in \in GamelogInputs :
        /\ in.retries = DefaultRetries /\ in.fails \in {0, DefaultRetries + 1}
        /\ in.season[1] = MaxSeasonDays /\ in.dur = 1}

SpecScheduleInputs == {in \in ScheduleInputs : ~in.lagging /\ in.dur = 1}

Init == \E file \in InitialFiles : Constructed(StartTime, file)

Tick == ClockMoves(SpecGrid)
Call_get_player_stats == Do_get_player_stats({"PlayerA", "PlayerZ"}, SpecGamelogInputs)
Call_get_remaining_games == Do_get_remaining_games({"lal", "XXX"}, {<<1, 3>>}, SpecScheduleInputs)
Call_get_remaining_games_bulk ==
    Do_get_remaining_games_bulk({<<"BOS", "XXX">>, <<"LAL", "lal">>}, BulkRanges, SpecScheduleInputs)

Next ==
    \/ Tick
    \/ Restart
    \/ Call_get_player_stats
    \/ Call_get_remaining_games
    \/ Call_get_remaining_games_bulk

Spec == Init /\ [][Next]_vars

----------------------------------------------------------------------------
(* SpecGamelog: one client and its gamelog partition across the 15:00          *)
(* boundary, with every outcome of the retry loop and of the file write        *)

InitGamelog == \E file \in StartFiles : Constructed(StartTime, file)

GamelogTick == ClockMoves({Combine(1, 54060)})
GamelogQuery ==
    Do_get_player_stats(QueryNames,
                        {in \in GamelogInputs : in.dur = 1 /\ in.season[1] = MaxSeasonDays})

NextGamelog ==
    \/ GamelogTick
    \/ GamelogQuery

SpecGamelog == InitGamelog /\ [][NextGamelog]_vars

----------------------------------------------------------------------------
(* SpecRoundTrip: clients that refresh either partition, save with any outcome *)
(* of the write and are constructed anew from the file                         *)

RoundTripTick == ClockMoves({Combine(1, 54060)})
RoundTripRestart == Restart
RoundTripStats ==
    Do_get_player_stats({"PlayerA", "PlayerB"},
                        {in \in GamelogInputs :
                            /\ in.retries = DefaultRetries /\ in.fails = 0
                            /\ in.dur = 1 /\ in.season[1] = MaxSeasonDays})
RoundTripGames ==
    Do_get_remaining_games({"lal"}, {<<1, 3>>}, {in \in ScheduleInputs : ~in.lagging /\ in.dur = 1})

NextRoundTrip ==
    \/ RoundTripTick
    \/ RoundTripRestart
    \/ RoundTripStats
    \/ RoundTripGames

SpecRoundTrip == InitGamelog /\ [][NextRoundTrip]_vars

----------------------------------------------------------------------------
(* SpecSchedule: one client and its schedule partition, fresh, stale or empty  *)
(* at the start, with every outcome of each schedule request                   *)

ScheduleTick == ClockMoves({Combine(1, 54060)})
ScheduleQuery ==
    Do_get_remaining_games(TeamArgs, {<<0, 6>>, <<1, 6>>, <<2, 2>>},
                           {in \in ScheduleInputs : in.dur = 1 /\ in.write = "ok"})
ScheduleBulkQuery ==
    Do_get_remaining_games_bulk(BulkArgs, {<<1, 6>>},
                                {in \in ScheduleInputs : in.dur = 1 /\ in.write = "ok"})

NextSchedule ==
    \/ ScheduleTick
    \/ ScheduleQuery
    \/ ScheduleBulkQuery

SpecSchedule == InitGamelog /\ [][NextSchedule]_vars

----------------------------------------------------------------------------
(* SpecDays: one client queried through the days, every upstream answer        *)
(* either immediate success, success on the first retry, or exhaustion         *)

DaysTick == ClockMoves(Grid)
DaysQuery ==
    Do_get_player_stats({"PlayerA"},
                        {in \in GamelogInputs :
                            /\ in.retries = DefaultRetries /\ in.fails \in {0, 1, DefaultRetries + 1}
                            /\ in.season[1] = MaxSeasonDays /\ in.dur = 1 /\ in.write = "ok"})

NextDays ==
    \/ DaysTick
    \/ DaysQuery

SpecDays == InitGamelog /\ [][NextDays]_vars

----------------------------------------------------------------------------
(* SpecStale: the two staleness checks on every pair of updated_at and now     *)

\* 00:00, 00:30, 00:59:59, 01:00, 01:00:01, 14:59, 15:00, 15:01, 23:00, 23:59:59
StaleTimesOfDay == {0, 1800, 3599, 3600, 3601, 53940, 54000, 54060, 82800, 86399}
StaleInstants == {Combine(d, s) : d \in 0..MaxDay, s \in StaleTimesOfDay}
StaleTexts == {EmptyText, CorruptText} \cup {isoformat(t) : t \in StaleInstants}

StampedDoc(text) ==
    [EmptyDoc EXCEPT !.league_gamelog.updated_at = text, !.schedule.updated_at = text]

InitStale ==
    \E t \in StaleInstants, text \in StaleTexts :
        /\ now = t
        /\ cache_data = StampedDoc(text)
        /\ disk = FileMissing
        /\ last_call_time = 0
        /\ ret = Returned(NoneValue)
        /\ hist = HistOf("init", "", 0, "ok", Machine(t, 0, EmptyDoc, FileMissing), 0)
        /\ refreshes = NoRefreshes
        /\ saved = NothingSaved

Check_is_league_gamelog_stale ==
    /\ ret' = is_league_gamelog_stale(cache_data, now)
    /\ hist' = HistOf("is_league_gamelog_stale", "", 0, "ok", Here, 0)
    /\ UNCHANGED <<now, cache_data, disk, last_call_time, refreshes, saved>>

Check_is_schedule_stale ==
    /\ ret' = is_schedule_stale(cache_data, now)
    /\ hist' = HistOf("is_schedule_stale", "", 0, "ok", Here, 0)
    /\ UNCHANGED <<now, cache_data, disk, last_call_time, refreshes, saved>>

NextStale ==
    \/ Check_is_league_gamelog_stale
    \/ Check_is_schedule_stale

SpecStale == InitStale /\ [][NextStale]_vars

----------------------------------------------------------------------------
(* SpecStats: get_player_stats on a fresh partition holding one player with    *)
(* 1 .. MaxGames games, stored in any of three orders                          *)

MaxGames == 16

\* the stored order of a list fetched by date: as fetched, as a query left it,
\* and the odd days before the even ones
StoredOrders == {"ascending", "descending", "odd_first"}

RECURSIVE GamesOf(_, _)
GamesOf(p, k) ==
    IF k = 0 THEN <<>> ELSE Append(GamesOf(p, k - 1), GameLogRecordOf(LeagueRow(p, k)))

RECURSIVE Reverse(_)
Reverse(seq) == IF seq = <<>> THEN <<>> ELSE Append(Reverse(Tail(seq)), Head(seq))

RECURSIVE Filter(_, _)
Filter(seq, parity) ==
    IF seq = <<>> THEN <<>>
    ELSE (IF Head(seq).GAME_DATE % 2 = parity THEN <<Head(seq)>> ELSE <<>>)
         \o Filter(Tail(seq), parity)

Stored(games, order) ==
    CASE order = "ascending" -> games
      [] order = "descending" -> Reverse(games)
      [] OTHER -> Filter(games, 1) \o Filter(games, 0)

InitStats ==
    \E k \in 1..MaxGames, order \in StoredOrders, p \in {"PlayerA", "PlayerB"} :
        /\ now = StartTime
        /\ cache_data = [EmptyDoc EXCEPT !.league_gamelog =
                            [games |-> Put(EmptyMap, p, Stored(GamesOf(p, k), order)),
                             updated_at |-> isoformat(StartTime)]]
        /\ disk = FileMissing
        /\ last_call_time = 0
        /\ ret = Returned(NoneValue)
        /\ hist = HistOf("init", "", 0, "ok", Machine(StartTime, 0, EmptyDoc, FileMissing), 0)
        /\ refreshes = NoRefreshes
        /\ saved = NothingSaved

StatsQuery == Do_get_player_stats({"PlayerA", "PlayerB", "PlayerZ"}, GamelogInputs)

NextStats == StatsQuery

SpecStats == InitStats /\ [][NextStats]_vars

----------------------------------------------------------------------------
(* SpecPartitions: one client refreshing both partitions, with requests that *)
(* fail and requests that take no time                                       *)

PartitionsTick == ClockMoves({Combine(1, 54060)})
PartitionsStats ==
    Do_get_player_stats({"PlayerA", "PlayerB"},
                        {in \in GamelogInputs :
                            /\ in.retries = DefaultRetries /\ in.fails \in {0, 1, 3}
                            /\ in.season[1] = MaxSeasonDays /\ in.write = "ok"
                            /\ in.dur = 0})
PartitionsGames ==
    Do_get_remaining_games({"lal"}, {<<1, 6>>},
                           {in \in ScheduleInputs : ~in.lagging /\ in.write = "ok"})
PartitionsBulk ==
    Do_get_remaining_games_bulk({<<"BOS", "XXX">>}, {<<1, 6>>},
                                {in \in ScheduleInputs : ~in.lagging /\ in.write = "ok"})

NextPartitions ==
    \/ PartitionsTick
    \/ PartitionsStats
    \/ PartitionsGames
    \/ PartitionsBulk

SpecPartitions == InitGamelog /\ [][NextPartitions]_vars

----------------------------------------------------------------------------
(* SpecNineCat: _extract_9cat_from_records applied to windows of game records *)

MaxWindow == 2   \* games in a window

\* field goals and free throws of one game, as <<made, attempted>>
FieldGoals == {<<1, 1>>, <<0, 9>>, <<0, 0>>, <<3, 7>>, <<5, 10>>}
FreeThrows == {<<0, 0>>, <<2, 2>>, <<1, 3>>}

ShootingRecord(fg, ft) ==
    [GAME_DATE |-> 1, PTS |-> 2 * fg[1] + ft[1], REB |-> 0, AST |-> 0, STL |-> 0,
     BLK |-> 0, TOV |-> 0, FG3M |-> 0, FGA |-> fg[2], FGM |-> fg[1],
     FTA |-> ft[2], FTM |-> ft[1]]

Windows ==
    UNION {[1..n -> {ShootingRecord(fg, ft) : fg \in FieldGoals, ft \in FreeThrows}] :
              n \in 1..MaxWindow}

InitNineCat ==
    \E records \in Windows :
        /\ now = StartTime
        /\ cache_data = EmptyDoc
        /\ disk = FileMissing
        /\ last_call_time = 0
        /\ ret = Returned(NoneValue)
        /\ hist = HistOf("init", records, 0, "ok",
                         Machine(StartTime, 0, EmptyDoc, FileMissing), 0)
        /\ refreshes = NoRefreshes
        /\ saved = NothingSaved

Do_extract_9cat_from_records ==
    /\ hist.op = "init"
    /\ ret' = Returned(extract_9cat_from_records(hist.arg))
    /\ hist' = HistOf("extract_9cat_from_records", hist.arg, 0, "ok", Here, 1)
    /\ UNCHANGED <<now, cache_data, disk, last_call_time, refreshes, saved>>

NextNineCat == Do_extract_9cat_from_records

SpecNineCat == InitNineCat /\ [][NextNineCat]_vars

----------------------------------------------------------------------------
(* SpecShared: two processes, A and B, each with its own client, constructed  *)
(* from the same cache file and writing to it; in this specification          *)
(* cache_data and last_call_time hold one value per process                   *)

InitShared ==
    \E file \in StartFiles :
        /\ now = StartTime
        /\ disk = file
        /\ cache_data = [p \in {"A", "B"} |-> load_cache(file, EmptyDoc)]
        /\ last_call_time = [p \in {"A", "B"} |-> 0]
        /\ ret = Returned(NoneValue)
        /\ hist = HistOf("init", "", 0, "ok", Machine(StartTime, 0, EmptyDoc, file), 0)
        /\ refreshes = NoRefreshes
        /\ saved = NothingSaved

\* one call of process p's client, run to its end before the other process moves
Do_shared_call ==
    \E p \in {"A", "B"} :
        LET m == Machine(now, last_call_time[p], cache_data[p], disk)
            ends(r, op, arg) ==
                /\ hist.k <= MaxOpsPerTick
                /\ now' = r.m.t
                /\ cache_data' = [cache_data EXCEPT ![p] = r.m.doc]
                /\ disk' = r.m.file
                /\ last_call_time' = [last_call_time EXCEPT ![p] = r.m.last]
                /\ ret' = r.ret
                /\ hist' = HistOf(op, <<p, arg>>, DefaultRetries, "ok", r.m, hist.k + 1)
                /\ saved' = SavedAfter(r.m, "ok")
        IN  \/ \E fails \in {0, DefaultRetries + 1} :
                   LET r == get_player_stats(m, "PlayerA", DefaultRetries, fails,
                                             LeagueGameLog(MaxSeasonDays, {"PlayerA", "PlayerC"}),
                                             1, "ok")
                   IN  /\ ends(r, "get_player_stats", "PlayerA")
                       /\ refreshes' = RefreshesAfter(r.m, Len(r.m.reqs) > 0 /\ fails > 0)
            \/ \E ok \in BOOLEAN :
                   LET r == get_remaining_games(m, "lal", 1, 6, ok,
                                                ScheduleLeagueV2(DateOf(now), FALSE), 1, "ok")
                   IN  /\ ends(r, "get_remaining_games", "lal")
                       /\ refreshes' = refreshes

SpecShared == InitShared /\ [][Do_shared_call]_vars

----------------------------------------------------------------------------
(* SpecTeamIndex: the team index built from flat lists of games *)

MaxFlatGames == 3   \* games in a flat list

\* the flat lists: up to MaxFlatGames games between two of the teams, one a day
InitTeamIndex ==
    \E n \in 0..MaxFlatGames :
    \E pairs \in [1..n -> {pair \in TeamCodes \X TeamCodes : pair[1] # pair[2]}] :
        /\ now = StartTime
        /\ cache_data = EmptyDoc
        /\ disk = FileMissing
        /\ last_call_time = 0
        /\ ret = Returned(NoneValue)
        /\ hist = HistOf("init",
                         [i \in 1..n |-> [gameDateEst |-> i, gameStatus |-> 1,
                                          homeTeam |-> pairs[i][1], awayTeam |-> pairs[i][2]]],
                         0, "ok", Machine(StartTime, 0, EmptyDoc, FileMissing), 0)
        /\ refreshes = NoRefreshes
        /\ saved = NothingSaved

Do_team_games ==
    /\ hist.op = "init"
    /\ ret' = Returned(team_games(hist.arg))
    /\ hist' = HistOf("team_games", hist.arg, 0, "ok", Here, 1)
    /\ UNCHANGED <<now, cache_data, disk, last_call_time, refreshes, saved>>

SpecTeamIndex == InitTeamIndex /\ [][Do_team_games]_vars

----------------------------------------------------------------------------
(* SpecThreads: one client called by two threads, T1 and T2, each making one   *)
(* call; a call is a sequence of steps (the staleness test, an attempt with    *)
(* its wait and its request, a backoff sleep, the reading of the cache) and    *)
(* the threads interleave between steps.  In this specification ret holds one  *)
(* frame per thread: its position pc in its call, the call op, the partition   *)
(* part it is refreshing, the teams todo and the counts acc of a schedule      *)
(* call, the attempt number, the requests sent, whether its staleness test     *)
(* found another thread already refreshing the partition (joined) and whether  *)
(* it then sent a request all the same (dup), and the value returned.          *)

\* one step of thread p
Do_thread_step(p) ==
    LET f == ret[p]
        refreshing(part) ==
            \E q \in {"T1", "T2"} \ {p} : ret[q].pc \in {"attempt", "sleep"} /\ ret[q].part = part
        goes(r, g) ==
            /\ now' = r.t
            /\ cache_data' = r.doc
            /\ disk' = r.file
            /\ last_call_time' = r.last
            /\ ret' = [ret EXCEPT ![p] = g]
            /\ hist' = HistOf("step", p, DefaultRetries, "ok", r, 0)
            /\ saved' = SavedAfter(r, "ok")
            /\ refreshes' = RefreshesAfter(r, FALSE)
        gamelog_stale == is_league_gamelog_stale(cache_data, now).value
        schedule_stale == is_schedule_stale(cache_data, now).value
    IN  \* get_player_stats("PlayerA") is called: line 142
        \/ /\ f.pc = "idle"
           /\ goes(Here, [f EXCEPT !.op = "get_player_stats", !.part = "league_gamelog",
                                   !.pc = IF gamelog_stale THEN "attempt" ELSE "lookup",
                                   !.joined = gamelog_stale /\ refreshing("league_gamelog")])
        \* get_remaining_games("lal", 1, 6) is called
        \/ /\ f.pc = "idle"
           /\ goes(Here, [f EXCEPT !.op = "get_remaining_games", !.part = "schedule",
                                   !.pc = "next", !.todo = <<"lal">>])
        \* get_remaining_games_bulk(["BOS", "XXX"], 1, 6) is called: line 281
        \/ /\ f.pc = "idle"
           /\ goes(Here, [f EXCEPT !.op = "get_remaining_games_bulk", !.part = "schedule",
                                   !.pc = IF schedule_stale THEN "attempt" ELSE "next",
                                   !.todo = <<"BOS", "XXX">>,
                                   !.joined = schedule_stale /\ refreshing("schedule")])
        \* the next team of the comprehension, or its end: lines 282, 268 and 237
        \/ /\ f.pc = "next"
           /\ IF f.todo = <<>>
              THEN goes(Here, [f EXCEPT !.pc = "done", !.team = "",
                                        !.value = IF f.op = "get_remaining_games"
                                                  THEN f.acc[Upper("lal")]
                                                  ELSE DictValue(f.acc)])
              ELSE goes(Here, [f EXCEPT !.team = Head(f.todo), !.todo = Tail(f.todo),
                                        !.pc = IF schedule_stale THEN "attempt" ELSE "count",
                                        !.joined = schedule_stale /\ refreshing("schedule")])
        \* one attempt of the gamelog loop: lines 146-187 up to the sleep
        \/ /\ f.pc = "attempt" /\ f.part = "league_gamelog"
           /\ \E ok \in BOOLEAN :
                  LET r == Request(wait_for_rate_limit(Here), "gamelog", 1)
                      g == [f EXCEPT !.sent = @ + 1, !.dup = @ \/ f.joined]
                  IN  IF ok
                      THEN goes(StoreGamelog(r, LeagueGameLog(MaxSeasonDays, {"PlayerA", "PlayerC"}),
                                             "ok"),
                                [g EXCEPT !.pc = "lookup"])
                      ELSE goes(r, [g EXCEPT !.pc = IF f.attempt < DefaultRetries
                                                    THEN "sleep" ELSE "lookup"])
        \* the backoff sleep and "continue": lines 183-186
        \/ /\ f.pc = "sleep"
           /\ goes(Sleep(Here, Pow2(f.attempt) * 5),
                   [f EXCEPT !.attempt = @ + 1, !.pc = "attempt"])
        \* the one attempt of the schedule fetch: lines 241-264
        \/ /\ f.pc = "attempt" /\ f.part = "schedule"
           /\ \E ok \in BOOLEAN :
                  LET r == Request(wait_for_rate_limit(Here), "schedule", 1)
                      g == [f EXCEPT !.sent = @ + 1, !.dup = @ \/ f.joined,
                                     !.pc = IF f.team = "" THEN "next" ELSE "count"]
                  IN  IF ok
                      THEN goes(StoreSchedule(r, ScheduleLeagueV2(DateOf(now), FALSE), "ok"), g)
                      ELSE goes(r, g)
        \* get_player_stats reads the cache: lines 217-231
        \/ /\ f.pc = "lookup"
           /\ LET l == lookup_player_stats(cache_data, "PlayerA")
              IN  goes([Here EXCEPT !.doc = l.doc], [f EXCEPT !.pc = "done", !.value = l.ret.value])
        \* get_remaining_games counts the team's games: lines 269-277
        \/ /\ f.pc = "count"
           /\ LET teams == cache_data.schedule.teams
                  games == IF Upper(f.team) \in DOMAIN teams THEN teams[Upper(f.team)] ELSE <<>>
              IN  goes(Here, [f EXCEPT !.pc = "next",
                                       !.acc = Put(@, Upper(f.team),
                                                   count_remaining(games, 1, 6, DateOf(now)))])

SpecThreads ==
    /\ \E file \in StartFiles :
           /\ now = StartTime
           /\ disk = file
           /\ cache_data = load_cache(file, EmptyDoc)
           /\ last_call_time = 0
           /\ ret = [p \in {"T1", "T2"} |->
                        [pc |-> "idle", op |-> "", part |-> "", todo |-> <<>>, team |-> "",
                         acc |-> EmptyMap, attempt |-> 0, sent |-> 0, joined |-> FALSE,
                         dup |-> FALSE, value |-> NoneValue]]
           /\ hist = HistOf("init", "", 0, "ok", Machine(StartTime, 0, EmptyDoc, file), 0)
           /\ refreshes = NoRefreshes
           /\ saved = NothingSaved
    /\ [][\E p \in {"T1", "T2"} : Do_thread_step(p)]_vars

----------------------------------------------------------------------------
(* SpecScheduleClient: NBAScheduleClient objects constructed from the schedule *)
(* cache file, one after the other, and queried; in this specification         *)
(* cache_data is _schedule and disk the schedule cache file                    *)

Do_NBAScheduleClient ==
    \* the clock moves on to 00:30 of the next day
    \/ ClockMoves(SpecGrid)
    \* NBAScheduleClient(): lines 25-28
    \/ /\ hist.k < MaxOpsPerTick
       /\ \E ok \in BOOLEAN, write \in WriteOutcomes :
              LET r == load_schedule(Machine(now, 0, EmptyMap, disk), ok,
                                     ScheduleLeagueV2(DateOf(now), FALSE), 1, write)
              IN  /\ now' = r.t
                  /\ cache_data' = r.doc
                  /\ disk' = r.file
                  /\ ret' = Returned(NoneValue)
                  /\ hist' = HistOf("NBAScheduleClient", "", 0, write, r, hist.k + 1)
                  /\ UNCHANGED <<last_call_time, refreshes, saved>>
    \* get_remaining_games: lines 88-110
    \/ /\ hist.k < MaxOpsPerTick
       /\ \E team_abbr \in TeamArgs, range \in {<<1, 6>>, <<2, 2>>} :
              LET games == IF Upper(team_abbr) \in DOMAIN cache_data
                           THEN cache_data[Upper(team_abbr)] ELSE <<>>
              IN  /\ ret' = Returned(count_remaining(games, range[1], range[2], DateOf(now)))
                  /\ hist' = HistOf("get_remaining_games", <<team_abbr, range>>, 0, "ok",
                                    Here, hist.k + 1)
                  /\ UNCHANGED <<now, cache_data, disk, last_call_time, refreshes, saved>>

\* the first client is constructed at 00:30 of day 1 with no file, a file that is
\* no JSON, a file without cached_at, or a file cached 1 h 30 min, 24 h or
\* 24 h 20 min before
SpecScheduleClient ==
    /\ LET cached(members) ==
               FileJson(JObject(members \o
                                <<<<"teams", DumpObject(team_games(ScheduleLeagueV2(0, FALSE)),
                                                        TeamOrder)>>>>))
       IN  \E file \in {FileMissing, FileGarbage, cached(<<>>),
                        cached(<<<<"cached_at", Yesterday23>>>>),
                        cached(<<<<"cached_at", isoformat(Combine(0, 1800))>>>>),
                        cached(<<<<"cached_at", Yesterday0010>>>>)} :
           \E ok \in BOOLEAN, write \in WriteOutcomes :
               LET r == load_schedule(Machine(StartTime, 0, EmptyMap, file), ok,
                                      ScheduleLeagueV2(DateOf(StartTime), FALSE), 1, write)
               IN  /\ now = r.t
                   /\ cache_data = r.doc
                   /\ disk = r.file
                   /\ last_call_time = 0
                   /\ ret = Returned(NoneValue)
                   /\ hist = HistOf("NBAScheduleClient", "", 0, write, r, 0)
                   /\ refreshes = NoRefreshes
                   /\ saved = NothingSaved
    /\ [][Do_NBAScheduleClient]_vars

----------------------------------------------------------------------------
(* The claims *)

\* what a claim reads off the state: a partition's updated_at holds no timestamp
\* (it is the empty text, or a text that is no ISO-8601 timestamp), and the day
\* and the second of the day it holds otherwise
Unset(text) ==
    \/ text = <<>>
    \/ Len(text) # 4
    \/ text[2] > 23 \/ text[3] > 59 \/ text[4] > 59
StampDay(text) == text[1]
StampSecond(text) == text[2] * 3600 + text[3] * 60 + text[4]
StampInstant(text) == StampDay(text) * 86400 + StampSecond(text)
NowDay == now \div 86400
NowSecond == now % 86400

\* C1: the gamelog staleness check returns true exactly when updated_at is unset
\* (holds no timestamp), or its date is before now's date, or one of the two
\* boundaries 01:00 and 15:00 of now's date lies in (updated_at, now]; otherwise it
\* returns false.  So 14:59 is stale at 15:01 of that day and not at 14:59, and
\* yesterday 23:00 is stale at 00:30 today.
C1_GamelogStaleExactly ==
    hist.op = "is_league_gamelog_stale" =>
        LET u == cache_data.league_gamelog.updated_at
            expected ==
                \/ Unset(u)
                \/ StampDay(u) < NowDay
                \/ \E b \in {3600, 54000} :
                      /\ StampInstant(u) < NowDay * 86400 + b
                      /\ b <= NowSecond
        IN  /\ ret.raised = "none"
            /\ ret.value = expected
            /\ (u = <<NowDay, 14, 59, 0>> /\ NowSecond = 54060) => ret.value
            /\ (u = <<NowDay, 14, 59, 0>> /\ NowSecond = 53940) => ~ret.value
            /\ (u = <<NowDay - 1, 23, 0, 0>> /\ NowSecond = 1800) => ret.value

\* C1 witness: updated at 14:59 of day 1 and checked at 15:01 of day 1, the check said stale
C1_Witness ==
    /\ hist.op = "is_league_gamelog_stale"
    /\ cache_data.league_gamelog.updated_at = <<1, 14, 59, 0>>
    /\ now = 86400 + 54060
    /\ ret.value = TRUE

\* C6: the schedule is stale exactly when its updated_at is unset (holds no
\* timestamp) or now - updated_at >= 24 hours; the daily boundaries and the
\* change of day do not matter
C6_ScheduleStaleIsTTL ==
    hist.op = "is_schedule_stale" =>
        LET u == cache_data.schedule.updated_at
        IN  /\ ret.raised = "none"
            /\ ret.value = (Unset(u) \/ now - StampInstant(u) >= 86400)
            /\ (u = <<NowDay, 14, 59, 0>> /\ NowSecond = 54060) => ~ret.value
            /\ (u = <<NowDay - 1, 23, 0, 0>> /\ NowSecond = 1800) => ~ret.value

\* C6 witness: updated at 01:00 of day 0 and checked at 01:00 of day 1, exactly
\* 24 hours later, the schedule is stale
C6_Witness ==
    /\ hist.op = "is_schedule_stale"
    /\ cache_data.schedule.updated_at = <<0, 1, 0, 0>>
    /\ now = 86400 + 3600
    /\ ret.value = TRUE

\* C2 as claimed: with every upstream fetch succeeding, one client refreshes the
\* gamelog partition at most two times within one calendar day
C2_AtMostTwoRefreshesPerDay ==
    refreshes.all_ok => refreshes.n <= 2

\* C2 as amended: with every upstream fetch succeeding, one client refreshes the
\* gamelog partition at most three times within one calendar day (once after the
\* change of day, once after each of the two boundaries)
C2_AtMostThreeRefreshesPerDay ==
    refreshes.all_ok => refreshes.n <= 3

\* C2 witness: the third refresh of a day, no fetch having failed, stamped after 15:00
C2_Witness ==
    /\ refreshes.all_ok
    /\ refreshes.n = 3
    /\ "league_gamelog" \in hist.fetched
    /\ StampDay(cache_data.league_gamelog.updated_at) = refreshes.day
    /\ StampSecond(cache_data.league_gamelog.updated_at) >= 54000

\* what a claim reads off the state: the stored games of a player (none when the
\* player is absent), a list in descending order of date, the keys of a returned
\* value (None has none)
StoredGames(doc, p) ==
    IF p \in DOMAIN doc.league_gamelog.games THEN doc.league_gamelog.games[p] ELSE <<>>
Descending(games) ==
    \A i \in 1..(Len(games) - 1) : games[i].GAME_DATE >= games[i + 1].GAME_DATE
SameGames(a, b) ==
    /\ Len(a) = Len(b)
    /\ {a[i] : i \in DOMAIN a} = {b[i] : i \in DOMAIN b}
KeysOf(r) == IF r.value.kind = "dict" THEN DOMAIN r.value.d ELSE {}

\* a get_player_stats call whose refresh exhausted its retries: every attempt
\* issued its request, none stored a partition
ExhaustedCall(h) ==
    /\ h.op = "get_player_stats"
    /\ Len(h.reqs) = h.retries + 1
    /\ h.fetched = {}

\* C3: when every attempt of the refresh fails, the call does not raise, the
\* gamelog partition keeps its updated_at and every player's games (the queried
\* player's list only put in descending order by the query itself), nothing is
\* written to disk, and the call answers from the cached games: a player with
\* five or more cached games still gets statistics
C3_ExhaustedRetriesKeepCache ==
    [][ExhaustedCall(hist') =>
          LET old == cache_data.league_gamelog
              new == cache_data'.league_gamelog
              p == hist'.arg
          IN  /\ ret'.raised = "none"
              /\ new.updated_at = old.updated_at
              /\ DOMAIN new.games = DOMAIN old.games
              /\ \A q \in DOMAIN old.games \ {p} : new.games[q] = old.games[q]
              /\ SameGames(StoredGames(cache_data', p), StoredGames(cache_data, p))
              /\ Descending(StoredGames(cache_data', p))
              /\ cache_data'.schedule = cache_data.schedule
              /\ hist'.writes = 0
              /\ disk' = disk
              /\ saved' = saved
              /\ ret' = lookup_player_stats(cache_data, p).ret
              /\ Len(StoredGames(cache_data, p)) >= 5 => "last_5" \in KeysOf(ret')
    ]_vars

\* C3 witness: three failed attempts on a stale partition loaded from disk, and
\* the caller still got the cached player's last_5
C3_Witness ==
    /\ ExhaustedCall(hist)
    /\ Len(hist.reqs) = 3
    /\ hist.sleeps = <<5, 10>>
    /\ cache_data.league_gamelog.updated_at = <<0, 23, 0, 0>>
    /\ "last_5" \in KeysOf(ret)

\* C4 as claimed: a player present in the partition with 1 to 4 stored games gets
\* a present-but-empty structure, and None is returned only for an absent player
C4_FewGamesPresentButEmpty ==
    hist.op = "get_player_stats" =>
        /\ Len(StoredGames(cache_data, hist.arg)) \in 1..4 =>
              ret = Returned(DictValue(EmptyMap))
        /\ ret = Returned(NoneValue) => hist.arg \notin DOMAIN cache_data.league_gamelog.games

\* C5: the result of get_player_stats for a player with k stored games contains
\* last_N exactly when k >= N, for N in 5, 10, 15 (None contains no key); with 7
\* games it contains last_5 only
C5_WindowIffEnoughGames ==
    hist.op = "get_player_stats" =>
        LET k == Len(StoredGames(cache_data, hist.arg))
        IN  /\ ret.raised = "none"
            /\ ("last_5" \in KeysOf(ret)) <=> (k >= 5)
            /\ ("last_10" \in KeysOf(ret)) <=> (k >= 10)
            /\ ("last_15" \in KeysOf(ret)) <=> (k >= 15)
            /\ KeysOf(ret) \subseteq {"last_5", "last_10", "last_15"}
            /\ k = 7 => KeysOf(ret) = {"last_5"}

\* C5 witness: a player with exactly 7 stored games got last_5 and nothing else
C5_Witness ==
    /\ hist.op = "get_player_stats"
    /\ Len(StoredGames(cache_data, hist.arg)) = 7
    /\ KeysOf(ret) = {"last_5"}

\* a get_player_stats call that fetched the gamelog and whose file write failed
FetchedUnsaved(h) ==
    /\ h.op = "get_player_stats"
    /\ "league_gamelog" \in h.fetched
    /\ h.write # "ok"

\* C9: a call whose fetch succeeded and whose file write failed does not raise,
\* leaves the fetched partition in memory (the upstream's players, stamped during
\* the call) and answers from it; the partition is fresh right after, so the next
\* call in the process issues no request and answers from the same partition
C9_FailedWriteKeepsRefresh ==
    [][/\ FetchedUnsaved(hist') =>
            LET new == cache_data'.league_gamelog
            IN  /\ ret'.raised = "none"
                /\ hist'.writes = 1
                /\ DOMAIN new.games = {"PlayerA", "PlayerC"}
                /\ Len(new.games["PlayerA"]) = MaxSeasonDays
                /\ ~Unset(new.updated_at)
                /\ StampInstant(new.updated_at) \in now..now'
                /\ StampInstant(new.updated_at) = now'
                /\ hist'.arg = "PlayerA" =>
                      /\ KeysOf(ret') = {"last_5"}
                      /\ ret'.value.d.last_5.PTS = 10 * (10 + MaxSeasonDays - 2)
                /\ hist'.arg = "PlayerB" => ret' = Returned(NoneValue)
       /\ (FetchedUnsaved(hist) /\ hist'.op = "get_player_stats") =>
            /\ hist'.reqs = <<>>
            /\ ret'.raised = "none"
            /\ cache_data'.league_gamelog.updated_at = cache_data.league_gamelog.updated_at
            /\ DOMAIN cache_data'.league_gamelog.games = {"PlayerA", "PlayerC"}
            /\ hist'.arg = "PlayerA" => KeysOf(ret') = {"last_5"}
    ]_vars

\* C9 witness: the query that follows a fetch with a failed write was answered
\* from the fetched partition, which the file does not hold
C9_Witness ==
    /\ hist.op = "get_player_stats"
    /\ hist.k = 2
    /\ hist.reqs = <<>>
    /\ hist.arg = "PlayerA"
    /\ KeysOf(ret) = {"last_5"}
    /\ "PlayerC" \in DOMAIN cache_data.league_gamelog.games
    /\ disk = FileGarbage
    /\ ~saved.some

\* the member of a dict under a key, if it has one
Member(obj, k) == IF k \in DOMAIN obj THEN <<obj[k]>> ELSE <<>>

\* C10: a client constructed from the file a completed save left holds the saved
\* document: the same player-to-records map, the same team-to-games map, the same
\* two updated_at
C10_SaveThenLoad ==
    (hist.op = "init" /\ saved.some) =>
        /\ Member(cache_data.league_gamelog, "games") = Member(saved.doc.league_gamelog, "games")
        /\ Member(cache_data.league_gamelog, "updated_at")
              = Member(saved.doc.league_gamelog, "updated_at")
        /\ Member(cache_data.schedule, "teams") = Member(saved.doc.schedule, "teams")
        /\ Member(cache_data.schedule, "updated_at") = Member(saved.doc.schedule, "updated_at")
        /\ cache_data = saved.doc

\* C10 witness: a restarted client holding a saved document in which both
\* partitions were fetched
C10_Witness ==
    /\ hist.op = "init"
    /\ saved.some
    /\ cache_data = saved.doc
    /\ "PlayerC" \in DOMAIN cache_data.league_gamelog.games
    /\ ~Unset(cache_data.league_gamelog.updated_at)
    /\ ~Unset(cache_data.schedule.updated_at)
    /\ StampDay(cache_data.schedule.updated_at) >= 1

\* C7 as claimed: a client constructed from a missing file, from a file that is
\* no JSON or from a JSON file that does not match the schema holds the fresh
\* empty document
C7_BadFileStartsEmpty ==
    (hist.op = "init" /\ disk \in {FileMissing, FileGarbage} \cup MalformedFiles) =>
        cache_data = EmptyDoc

\* C8 as claimed: whatever the file held, no query raises
C8_NoQueryRaises ==
    hist.op \in {"get_player_stats", "get_remaining_games", "get_remaining_games_bulk"} =>
        ret.raised = "none"

\* what a claim reads off the state: a team code in upper case, the schedule
\* list of a team code as a caller writes it (none when the team is absent), and
\* the games of a list that count as remaining in [start, end] on the given day
TeamCode(abbr) == CASE abbr = "lal" -> "LAL" [] abbr = "bos" -> "BOS" [] OTHER -> abbr
TeamGames(doc, abbr) ==
    IF TeamCode(abbr) \in DOMAIN doc.schedule.teams
    THEN doc.schedule.teams[TeamCode(abbr)]
    ELSE <<>>
Remaining(games, start, end, today) ==
    {i \in DOMAIN games :
        /\ start <= games[i].date /\ games[i].date <= end
        /\ games[i].date >= today
        /\ games[i].status \in {1, 2}}

C17_AtMostOneScheduleRequest ==
    hist.op \in {"get_remaining_games", "get_remaining_games_bulk"} =>
        Len(hist.reqs) <= 1

C19_FailedScheduleFetchKeepsCache ==
    [][ ( /\ hist'.k # hist.k
          /\ hist'.op = "get_remaining_games"
          /\ hist'.reqs # <<>>
          /\ hist'.fetched = {} )
        => LET known == TeamGames(cache_data, hist'.arg[1])
               start == hist'.arg[2][1]
               end == hist'.arg[2][2]
           IN  /\ ret'.raised = "none"
               /\ cache_data'.schedule = cache_data.schedule
               /\ ret'.value = Cardinality(Remaining(known, start, end, DateOf(now')))
               /\ known = <<>> => ret'.value = 0 ]_vars

\* C19 witness: a call whose one request failed counted games of the stale
\* schedule it held
C19_Witness ==
    /\ hist.op = "get_remaining_games"
    /\ Len(hist.reqs) = 1
    /\ hist.fetched = {}
    /\ ~Unset(cache_data.schedule.updated_at)
    /\ ret.raised = "none"
    /\ ret.value > 0

\* C14: one gamelog refresh issues at most retries + 1 requests (3 with the
\* default 2 retries); the request that succeeds is the last one, each request
\* before it having been followed by a backoff; when every attempt fails the
\* requests are exactly retries + 1
C14_AtMostRetriesPlusOne ==
    hist.op = "get_player_stats" =>
        LET n == Len(hist.reqs)
        IN  /\ n <= hist.retries + 1
            /\ hist.retries = 2 => n <= 3
            /\ \A i \in 1..n : hist.reqs[i].kind = "gamelog"
            /\ hist.fetched # {} =>
                   /\ n = Len(hist.sleeps) + 1
                   /\ \A i \in 1..n :
                          hist.reqs[i].at <= StampInstant(cache_data.league_gamelog.updated_at)
            /\ (hist.fetched = {} /\ n > 0) =>
                   /\ n = hist.retries + 1
                   /\ Len(hist.sleeps) = hist.retries

\* C14 witness: a refresh with the default retries that succeeded at its third
\* request
C14_Witness ==
    /\ hist.op = "get_player_stats"
    /\ hist.retries = 2
    /\ Len(hist.reqs) = 3
    /\ hist.sleeps = <<5, 10>>
    /\ hist.fetched = {"league_gamelog"}

\* C20: while the gamelog partition is fresh a get_player_stats call issues no
\* request, whatever the name; on a stale partition it issues a request, exactly
\* one when the upstream answers the first, and that one request stores every
\* player of the league, so that the partition is fresh and the next call, for
\* any name, issues none
C20_FreshGamelogNeedsNoRequest ==
    [][ hist'.op = "get_player_stats" =>
          /\ ~GamelogFetchNeeded => hist'.reqs = <<>> /\ hist'.fetched = {}
          /\ GamelogFetchNeeded => hist'.reqs # <<>>
          /\ (hist'.fetched # {} /\ hist'.sleeps = <<>>) =>
                 /\ Len(hist'.reqs) = 1
                 /\ hist'.reqs[1].kind = "gamelog"
                 /\ DOMAIN cache_data'.league_gamelog.games = {"PlayerA", "PlayerC"}
          /\ hist'.fetched # {} => ~GamelogFetchNeeded'
          /\ (hist.op = "get_player_stats" /\ hist.fetched # {}) => hist'.reqs = <<>>
    ]_vars

\* C20 witness: the first call of a client refreshed the league with one request
\* and the second, for a player the first did not ask for, issued none
C20_Witness ==
    /\ hist.op = "get_player_stats"
    /\ hist.k = 2
    /\ hist.arg = "PlayerZ"
    /\ hist.reqs = <<>>
    /\ refreshes.n = 1
    /\ last_call_time = StartTime
    /\ now = StartTime + 1

\* what a claim reads off a window of game records: the total of a field over
\* its first n games, and how far the ratio made / tried is from a value given
\* in thousandths (within half a thousandth: the value is the ratio rounded)
RECURSIVE Total(_, _, _)
Total(records, f, n) == IF n = 0 THEN 0 ELSE Total(records, f, n - 1) + records[n][f]
IsRatio(pct, made, tried) ==
    LET d == 1000 * made - pct * tried
    IN  2 * (IF d < 0 THEN -d ELSE d) <= tried

\* C12: FG_PCT and FT_PCT of a window are the sum of the makes over the sum of
\* the attempts (to three decimals), 0 when the attempts sum to 0, and not the
\* mean of the per-game percentages: games of 1/1 and 0/9 give 0.100, not 0.5
C12_PctIsSumOverSum ==
    hist.op = "extract_9cat_from_records" =>
        LET w == hist.arg
            n == Len(w)
            fga == Total(w, "FGA", n)
            fgm == Total(w, "FGM", n)
            fta == Total(w, "FTA", n)
            ftm == Total(w, "FTM", n)
        IN  /\ ret.raised = "none"
            /\ IF fga = 0 THEN ret.value.FG_PCT = 0 ELSE IsRatio(ret.value.FG_PCT, fgm, fga)
            /\ IF fta = 0 THEN ret.value.FT_PCT = 0 ELSE IsRatio(ret.value.FT_PCT, ftm, fta)
            /\ [i \in 1..n |-> <<w[i].FGM, w[i].FGA>>] = <<<<1, 1>>, <<0, 9>>>>
                   => ret.value.FG_PCT = 100

\* C12 witness: a window of a 1-for-1 game and a 0-for-9 game got FG_PCT 0.100
C12_Witness ==
    /\ hist.op = "extract_9cat_from_records"
    /\ Len(hist.arg) = 2
    /\ <<hist.arg[1].FGM, hist.arg[1].FGA>> = <<1, 1>>
    /\ <<hist.arg[2].FGM, hist.arg[2].FGA>> = <<0, 9>>
    /\ ret.value.FG_PCT = 100

\* C13: every upstream request of a client, gamelog or schedule, first attempt
\* or retry, is issued at the instant its wait permits, at least NBA_API_DELAY
\* after the instant the wait before it permitted (in the same call or in an
\* earlier one); each wait records its instant as the new last-call instant
C13_RequestsAtLeastDelayApart ==
    [][ hist'.op \in {"get_player_stats", "get_remaining_games", "get_remaining_games_bulk"} =>
          LET w == hist'.waits
              q == hist'.reqs
          IN  /\ Len(q) = Len(w)
              /\ \A i \in DOMAIN q : q[i].at = w[i]
              /\ w # <<>> => w[1] >= last_call_time + NBA_API_DELAY /\ w[1] >= now
              /\ \A i \in 1..(Len(w) - 1) : w[i + 1] >= w[i] + NBA_API_DELAY
              /\ last_call_time' = IF w = <<>> THEN last_call_time ELSE w[Len(w)]
    ]_vars

\* C13 witness: a gamelog request at the start, answered at once, and the
\* schedule request of the next call held back until NBA_API_DELAY after it
C13_Witness ==
    /\ hist.op = "get_remaining_games"
    /\ hist.k = 2
    /\ refreshes.n = 1
    /\ Len(hist.reqs) = 1
    /\ hist.reqs[1] = [kind |-> "schedule", at |-> StartTime + NBA_API_DELAY]
    /\ last_call_time = StartTime + NBA_API_DELAY

\* C15: the two partitions are independent: a get_player_stats call, its refresh
\* succeeding or failing, leaves the schedule's teams and updated_at as they were
\* and issues no schedule request; a remaining-games call leaves the gamelog's
\* games and updated_at as they were and issues no gamelog request
C15_PartitionsIndependent ==
    [][ /\ hist'.op = "get_player_stats" =>
               /\ cache_data'.schedule = cache_data.schedule
               /\ \A i \in DOMAIN hist'.reqs : hist'.reqs[i].kind = "gamelog"
               /\ "schedule" \notin hist'.fetched
        /\ hist'.op \in {"get_remaining_games", "get_remaining_games_bulk"} =>
               /\ cache_data'.league_gamelog = cache_data.league_gamelog
               /\ \A i \in DOMAIN hist'.reqs : hist'.reqs[i].kind = "schedule"
               /\ "league_gamelog" \notin hist'.fetched
    ]_vars

\* C15 witness: a gamelog refresh beside a schedule that kept its older stamp
C15_Witness ==
    /\ hist.op = "get_player_stats"
    /\ hist.fetched = {"league_gamelog"}
    /\ ~Unset(cache_data.schedule.updated_at)
    /\ DOMAIN cache_data.schedule.teams # {}
    /\ StampInstant(cache_data.schedule.updated_at)
           < StampInstant(cache_data.league_gamelog.updated_at)

\* what the upstream answers in SpecPartitions
FetchedRows == LeagueGameLog(MaxSeasonDays, {"PlayerA", "PlayerC"})
FetchedGames(day) == ScheduleLeagueV2(day, FALSE)

C21_AbsentPlayerGivesNone ==
    ( /\ hist.op = "get_player_stats"
      /\ hist.arg \notin DOMAIN cache_data.league_gamelog.games )
    => /\ ret.raised = "none"
       /\ ret.value = NoneValue

\* C21 witness: a call for an unknown name whose refresh failed at every attempt
\* returned None
C21_Witness ==
    /\ ExhaustedCall(hist)
    /\ hist.arg = "PlayerZ"
    /\ DOMAIN cache_data.league_gamelog.games # {}
    /\ ret = Returned(NoneValue)

\* the seven count fields of NineCatStats
CountFields == {"PTS", "REB", "AST", "STL", "BLK", "TOV", "FG3M"}

WindowLength(k) == CASE k = "last_5" -> 5 [] k = "last_10" -> 10 [] OTHER -> 15
IsMean(tenths, total, n) ==
    LET d == 10 * total - tenths * n
    IN  2 * (IF d < 0 THEN -d ELSE d) <= n

\* C23: each of the seven count fields of a window of N games is the sum of the
\* field over the N games divided by N, rounded to one decimal
C23_CountsAreMeans ==
    (hist.op = "get_player_stats" /\ ret.raised = "none" /\ ret.value.kind = "dict") =>
        LET games == StoredGames(cache_data, hist.arg)
        IN  \A k \in DOMAIN ret.value.d : \A f \in CountFields :
                IsMean(ret.value.d[k][f], Total(games, f, WindowLength(k)), WindowLength(k))

\* C23 witness: a window of 15 games whose rebounds do not divide evenly, so
\* that the mean was rounded
C23_Witness ==
    /\ hist.op = "get_player_stats"
    /\ "last_15" \in KeysOf(ret)
    /\ (10 * Total(StoredGames(cache_data, hist.arg), "REB", 15)) % 15 # 0
    /\ ret.value.d["last_15"].REB > 0

\* C24: the pauses between the attempts of a refresh are a base delay that
\* doubles with each retry plus a flat extra pause added on every error: for
\* some base > 0 and flat > 0 the i-th pause is base * 2^(i-1) + flat
C24_BackoffDoublesPlusFlatPause ==
    (hist.op = "get_player_stats" /\ hist.sleeps # <<>>) =>
        \E base \in 1..hist.sleeps[1], flat \in 1..hist.sleeps[1] :
            \A i \in DOMAIN hist.sleeps : hist.sleeps[i] = base * Pow2(i - 1) + flat

\* C25: a call that refreshed a partition, the write not failing, wrote the file
\* once, and the file holds the document the client held when the refresh
\* returned, both partitions (the client holds it still, but for the order of
\* the list a get_player_stats call sorted afterwards); a call none of whose
\* attempts succeeded wrote nothing
C25_SavedRightAfterRefresh ==
    [][ hist'.op \in {"get_player_stats", "get_remaining_games", "get_remaining_games_bulk"} =>
          /\ (hist'.fetched # {} /\ hist'.write = "ok") =>
                 /\ hist'.writes = 1
                 /\ saved'.some
                 /\ disk' = FileJson(dumps(saved'.doc))
                 /\ load_cache(disk', EmptyDoc) = saved'.doc
                 /\ saved'.doc.schedule = cache_data'.schedule
                 /\ saved'.doc.league_gamelog.updated_at = cache_data'.league_gamelog.updated_at
                 /\ DOMAIN saved'.doc.league_gamelog.games = DOMAIN cache_data'.league_gamelog.games
                 /\ \A p \in DOMAIN cache_data'.league_gamelog.games :
                        IF hist'.op = "get_player_stats" /\ p = hist'.arg
                        THEN SameGames(StoredGames(saved'.doc, p), StoredGames(cache_data', p))
                        ELSE StoredGames(saved'.doc, p) = StoredGames(cache_data', p)
          /\ hist'.fetched = {} =>
                 /\ hist'.writes = 0
                 /\ disk' = disk
                 /\ saved' = saved
    ]_vars

\* C25 witness: a schedule refresh beside a cached gamelog, and the file holds
\* the whole document the client holds
C25_Witness ==
    /\ hist.op = "get_remaining_games"
    /\ hist.fetched = {"schedule"}
    /\ DOMAIN cache_data.league_gamelog.games # {}
    /\ saved.some
    /\ saved.doc = cache_data
    /\ disk = FileJson(dumps(cache_data))

\* C26: the document in memory changes only by a successful fetch: a query made
\* while the partitions are fresh, or whose fetch fails, leaves the whole
\* document as it was, the stored order of every player's games included
C26_OnlyFetchChangesDocument ==
    [][ ( /\ hist'.op \in {"get_player_stats", "get_remaining_games",
                           "get_remaining_games_bulk"}
          /\ hist'.fetched = {} )
        => cache_data' = cache_data ]_vars

\* what a claim reads off a player's stored games: the n of them with the latest
\* dates, in stored order
LatestGames(games, n) ==
    SelectSeq(games, LAMBDA g :
        Cardinality({j \in DOMAIN games : games[j].GAME_DATE > g.GAME_DATE}) < n)

\* C27: each last_N window of get_player_stats is computed over the N stored
\* games of the player with the latest dates, whatever order they were stored in
C27_WindowIsLatestGames ==
    [][ (hist'.op = "get_player_stats" /\ ret'.raised = "none" /\ ret'.value.kind = "dict") =>
          \A k \in DOMAIN ret'.value.d :
              LET n == WindowLength(k)
                  latest == LatestGames(StoredGames(cache_data, hist'.arg), n)
                  s == ret'.value.d[k]
              IN  /\ Len(latest) = n
                  /\ \A f \in CountFields : IsMean(s[f], Total(latest, f, n), n)
                  /\ Total(latest, "FGA", n) > 0
                         => IsRatio(s.FG_PCT, Total(latest, "FGM", n), Total(latest, "FGA", n))
                  /\ Total(latest, "FTA", n) > 0
                         => IsRatio(s.FT_PCT, Total(latest, "FTM", n), Total(latest, "FTA", n))
    ]_vars

\* C27 witness: a player with seven stored games got a last_5 over games 3 to 7
\* (points 13 to 17, mean 15.0), not over the first five
C27_Witness ==
    /\ hist.op = "get_player_stats"
    /\ hist.arg = "PlayerA"
    /\ Len(StoredGames(cache_data, "PlayerA")) = 7
    /\ KeysOf(ret) = {"last_5"}
    /\ ret.value.d["last_5"].PTS = 150

\* C28: the team index built from a flat list of games holds, for each team that
\* is home or away in some game, exactly the games in which it is home or away,
\* in the order of the flat list: every game is in the list of its home team and
\* in the list of its away team and in no other list
C28_TeamIndexIsPartition ==
    hist.op = "team_games" =>
        LET flat == hist.arg
            index == ret.value
            teams == {flat[i].homeTeam : i \in DOMAIN flat}
                         \cup {flat[i].awayTeam : i \in DOMAIN flat}
            of(c) == SelectSeq(flat, LAMBDA g : g.homeTeam = c \/ g.awayTeam = c)
        IN  /\ DOMAIN index = teams
            /\ \A c \in teams :
                   /\ Len(index[c]) = Len(of(c))
                   /\ \A j \in DOMAIN of(c) :
                          /\ index[c][j].date = of(c)[j].gameDateEst
                          /\ index[c][j].status = of(c)[j].gameStatus
                          /\ index[c][j].home = of(c)[j].homeTeam
                          /\ index[c][j].away = of(c)[j].awayTeam
                          /\ c \in {index[c][j].home, index[c][j].away}
            /\ \A i \in DOMAIN flat :
                   \A c \in teams :
                       (\E j \in DOMAIN index[c] : index[c][j].date = flat[i].gameDateEst)
                           <=> c \in {flat[i].homeTeam, flat[i].awayTeam}

\* C28 witness: three games among three teams, one team home in one game and
\* away in another, indexed under both
C28_Witness ==
    /\ hist.op = "team_games"
    /\ Len(hist.arg) = 3
    /\ DOMAIN ret.value = {"BOS", "LAL", "NYK"}
    /\ Len(ret.value["LAL"]) = 2
    /\ ret.value["LAL"][1].home = "LAL"
    /\ ret.value["LAL"][2].away = "LAL"
    /\ ret.value["LAL"][1].date < ret.value["LAL"][2].date

\* C29: every upstream request, each gamelog attempt and each schedule fetch,
\* is preceded by one completed wait of its own: a call made as many waits as
\* requests, the i-th request was issued at the instant the i-th wait returned
\* and before the next wait, and each retry of the gamelog, made after a backoff,
\* waited again
C29_EachRequestAfterItsWait ==
    hist.op \in {"get_player_stats", "get_remaining_games", "get_remaining_games_bulk"} =>
        /\ Len(hist.waits) = Len(hist.reqs)
        /\ \A i \in DOMAIN hist.reqs : hist.reqs[i].at = hist.waits[i]
        /\ \A i \in 1..(Len(hist.reqs) - 1) : hist.reqs[i].at < hist.waits[i + 1]
        /\ (hist.op = "get_player_stats" /\ hist.reqs # <<>>) =>
               Len(hist.waits) = Len(hist.sleeps) + 1

\* C29 witness: a gamelog refresh that failed once and succeeded at its retry,
\* with a wait before either request
C29_Witness ==
    /\ hist.op = "get_player_stats"
    /\ hist.fetched = {"league_gamelog"}
    /\ hist.sleeps = <<5>>
    /\ Len(hist.waits) = 2
    /\ Len(hist.reqs) = 2
    /\ hist.reqs[2].at = hist.waits[2]

\* C30: each process saves the whole document it holds, over whatever the file
\* held: after a process refreshed the schedule, the file holds that process's
\* document, with the gamelog partition as the process held it before the call;
\* a gamelog that another process refreshed and saved in between is lost
C30_SaveOverwritesWholeFile ==
    [][ (hist'.op = "get_remaining_games" /\ "schedule" \in hist'.fetched) =>
          LET p == hist'.arg[1]
              on_disk == load_cache(disk', EmptyDoc)
          IN  /\ on_disk = cache_data'[p]
              /\ on_disk.league_gamelog = cache_data[p].league_gamelog
              /\ \A q \in DOMAIN cache_data :
                     cache_data[q].league_gamelog # cache_data[p].league_gamelog
                         => on_disk.league_gamelog # cache_data'[q].league_gamelog
    ]_vars

\* C30 witness: A refreshed the gamelog and saved it; B, holding the document
\* it loaded before, then refreshed the schedule and saved; the file has B's
\* schedule and no longer A's gamelog
C30_Witness ==
    /\ hist.op = "get_remaining_games"
    /\ hist.arg[1] = "B"
    /\ hist.fetched = {"schedule"}
    /\ refreshes.n = 1
    /\ "PlayerC" \in DOMAIN cache_data["A"].league_gamelog.games
    /\ StampInstant(cache_data["A"].league_gamelog.updated_at) >= StartTime
    /\ load_cache(disk, EmptyDoc).schedule = cache_data["B"].schedule
    /\ load_cache(disk, EmptyDoc).league_gamelog # cache_data["A"].league_gamelog
    /\ "PlayerC" \notin DOMAIN load_cache(disk, EmptyDoc).league_gamelog.games
\* C37: a refresh with r retries whose every attempt failed slept for backoff
\* exactly r times, once between each request and the next, and not after the
\* last one: the call ended as soon as its last request had failed
C37_NoBackoffAfterLastAttempt ==
    ExhaustedCall(hist) =>
        LET n == Len(hist.reqs)
        IN  /\ Len(hist.sleeps) = hist.retries
            /\ Len(hist.sleeps) = n - 1
            /\ \A i \in 1..(n - 1) :
                   /\ hist.sleeps[i] > 0
                   /\ hist.reqs[i + 1].at - hist.reqs[i].at >= hist.sleeps[i]
            /\ \A d \in DOMAIN hist.sleeps : now - hist.reqs[n].at < hist.sleeps[d]
            /\ \E dur \in FetchDurations : now = hist.reqs[n].at + dur

\* C37 witness: the default two retries exhausted, with pauses after the first
\* and the second request and the return right after the third
C37_Witness ==
    /\ ExhaustedCall(hist)
    /\ hist.retries = 2
    /\ Len(hist.reqs) = 3
    /\ hist.sleeps = <<5, 10>>
    /\ now = hist.reqs[3].at + 1
\* C38: the window keys of a get_player_stats result are nested: last_15 comes
\* with last_10 and last_10 with last_5, and a result that is not None holds
\* last_5
C38_WindowKeysNested ==
    hist.op = "get_player_stats" =>
        /\ ret.raised = "none"
        /\ "last_15" \in KeysOf(ret) => "last_10" \in KeysOf(ret)
        /\ "last_10" \in KeysOf(ret) => "last_5" \in KeysOf(ret)
        /\ ret.value # NoneValue => "last_5" \in KeysOf(ret)
        /\ KeysOf(ret) \in {{}, {"last_5"}, {"last_5", "last_10"},
                            {"last_5", "last_10", "last_15"}}

\* C38 witness: results with one, two and three windows exist; here the one with
\* exactly last_5 and last_10
C38_Witness ==
    /\ hist.op = "get_player_stats"
    /\ ret.value # NoneValue
    /\ KeysOf(ret) = {"last_5", "last_10"}
    /\ Len(StoredGames(cache_data, hist.arg)) \in 10..14
\* C39: a client constructed with no cache file holds the empty document, both
\* updated_at unset and both partitions stale; and as long as a partition is as
\* the first run built it, a get_player_stats call issues a gamelog request, and
\* a get_remaining_games call a schedule request, before it answers
C39_FirstRunFetchesBoth ==
    [][ /\ (hist.op = "init" /\ disk = FileMissing) =>
               /\ cache_data = EmptyDoc
               /\ cache_data.league_gamelog.games = EmptyMap
               /\ cache_data.schedule.teams = EmptyMap
               /\ Unset(cache_data.league_gamelog.updated_at)
               /\ Unset(cache_data.schedule.updated_at)
               /\ GamelogFetchNeeded
               /\ ScheduleFetchNeeded
        /\ (cache_data.league_gamelog = EmptyDoc.league_gamelog
              /\ hist'.op = "get_player_stats") =>
               /\ hist'.reqs # <<>>
               /\ \A i \in DOMAIN hist'.reqs :
                      hist'.reqs[i].kind = "gamelog" /\ hist'.reqs[i].at \in now..now'
        /\ (cache_data.schedule = EmptyDoc.schedule
              /\ hist'.op = "get_remaining_games") =>
               /\ Len(hist'.reqs) = 1
               /\ hist'.reqs[1].kind = "schedule"
               /\ hist'.reqs[1].at \in now..now'
    ]_vars

\* C39 witness: no file at the start and none written (both writes refused);
\* the first get_player_stats fetched the gamelog and the first
\* get_remaining_games, after it, the schedule
C39_Witness ==
    /\ disk = FileMissing
    /\ hist.op = "get_remaining_games"
    /\ hist.k = 2
    /\ Len(hist.reqs) = 1
    /\ hist.fetched = {"schedule"}
    /\ refreshes.n = 1
    /\ ~Unset(cache_data.league_gamelog.updated_at)
    /\ ~Unset(cache_data.schedule.updated_at)
    /\ ret.raised = "none"
    /\ ret.value > 0
\* C34: gamelog staleness is monotone in time: a partition stale now is stale
\* at every later instant with the same updated_at; across a step that leaves
\* updated_at as it was a stale partition stays stale, and a stale partition
\* becomes fresh only by a step that fetched it and set a new updated_at
C34_GamelogStalenessMonotone ==
    [][ /\ GamelogFetchNeeded =>
               \A t \in Grid \cup {now + 1, now + HourSecs, now + DaySecs} :
                   t >= now => is_league_gamelog_stale(cache_data, t) = Returned(TRUE)
        /\ (/\ GamelogFetchNeeded
            /\ cache_data'.league_gamelog.updated_at = cache_data.league_gamelog.updated_at) =>
               /\ now' >= now
               /\ GamelogFetchNeeded'
        /\ (GamelogFetchNeeded /\ ~GamelogFetchNeeded') =>
               /\ "league_gamelog" \in hist'.fetched
               /\ cache_data'.league_gamelog.updated_at # cache_data.league_gamelog.updated_at
               /\ StampInstant(cache_data'.league_gamelog.updated_at) \in now..now'
    ]_vars

\* C34 witness: a partition stamped at 00:10 of day 1, stale since 01:00, was
\* not refreshed (a refresh failed) and is still stale on day 2, where no
\* boundary of the day has been reached yet
C34_Witness ==
    /\ hist.op = "tick"
    /\ now = Combine(2, 1800)
    /\ cache_data.league_gamelog.updated_at = Today0010
    /\ ~refreshes.all_ok
    /\ GamelogFetchNeeded
\* what a claim reads off an updated_at that holds a timestamp: the instant the
\* gamelog's freshness ends, the first of 01:00, 15:00 and the next midnight
\* after it
GamelogFreshUntil(text) ==
    LET u == StampInstant(text)
        ends == {StampDay(text) * 86400 + s : s \in {3600, 54000, 86400}}
    IN  CHOOSE e \in ends : e > u /\ \A f \in ends : f > u => e <= f

\* C35: right after a successful refresh the refreshed partition is not stale;
\* a gamelog partition is not stale before the first of 01:00, 15:00 and
\* midnight after its updated_at and stale from then on, a schedule partition
\* is not stale before 24 hours after its updated_at and stale from then on;
\* and a query made while its partition is in that span issues no request
C35_FreshUntilBoundary ==
    [][ /\ "league_gamelog" \in hist'.fetched => ~GamelogFetchNeeded'
        /\ "schedule" \in hist'.fetched => ~ScheduleFetchNeeded'
        /\ ~Unset(cache_data.league_gamelog.updated_at) =>
               IF now < GamelogFreshUntil(cache_data.league_gamelog.updated_at)
               THEN /\ ~GamelogFetchNeeded
                    /\ hist'.op = "get_player_stats" => hist'.reqs = <<>>
               ELSE GamelogFetchNeeded
        /\ ~Unset(cache_data.schedule.updated_at) =>
               IF now < StampInstant(cache_data.schedule.updated_at) + 24 * 3600
               THEN /\ ~ScheduleFetchNeeded
                    /\ hist'.op = "get_remaining_games" => hist'.reqs = <<>>
               ELSE ScheduleFetchNeeded
    ]_vars

\* C35 witness: the schedule this client fetched at 00:30 answers a query after
\* 15:00 with no request, while the gamelog it fetched at 00:30 has become stale
\* at 15:00
C35_Witness ==
    /\ hist.op = "get_remaining_games"
    /\ hist.reqs = <<>>
    /\ now >= Combine(1, 54060)
    /\ ~Unset(cache_data.schedule.updated_at)
    /\ StampInstant(cache_data.schedule.updated_at) \in (StartTime + 1)..(StartTime + 60)
    /\ ~Unset(cache_data.league_gamelog.updated_at)
    /\ StampInstant(cache_data.league_gamelog.updated_at) \in (StartTime + 1)..(StartTime + 60)
    /\ GamelogFetchNeeded
\* C36: a partition's updated_at changes only in a call that fetched that
\* partition; a get_player_stats call on a stale gamelog whose attempts all
\* failed issued retries + 1 requests and left the partition as stale as it
\* was, a get_remaining_games call on a stale schedule whose request failed
\* issued that one request and left the schedule stale; so the call after a
\* failed one starts over with its own requests
C36_FailuresAreNotCached ==
    [][ /\ cache_data'.league_gamelog.updated_at # cache_data.league_gamelog.updated_at =>
               "league_gamelog" \in hist'.fetched
        /\ cache_data'.schedule.updated_at # cache_data.schedule.updated_at =>
               "schedule" \in hist'.fetched
        /\ (GamelogFetchNeeded /\ hist'.op = "get_player_stats" /\ hist'.fetched = {}) =>
               /\ Len(hist'.reqs) = hist'.retries + 1
               /\ \A i \in DOMAIN hist'.reqs : hist'.reqs[i].kind = "gamelog"
               /\ cache_data'.league_gamelog.updated_at = cache_data.league_gamelog.updated_at
               /\ GamelogFetchNeeded'
        /\ (ScheduleFetchNeeded /\ hist'.op = "get_remaining_games" /\ hist'.fetched = {}) =>
               /\ Len(hist'.reqs) = 1
               /\ hist'.reqs[1].kind = "schedule"
               /\ cache_data'.schedule = cache_data.schedule
               /\ ScheduleFetchNeeded'
        /\ (ExhaustedCall(hist) /\ hist'.op = "get_player_stats") =>
               /\ Len(hist'.reqs) >= 1
               /\ hist'.fetched = {} => Len(hist'.reqs) = hist'.retries + 1
        /\ (/\ hist.op = "get_remaining_games" /\ hist.reqs # <<>> /\ hist.fetched = {}
            /\ hist'.op = "get_remaining_games") =>
               Len(hist'.reqs) = 1
    ]_vars

\* C36 witness: two get_player_stats calls in a row exhausted their retries on
\* the same stale partition, three requests each: the second began its requests
\* 19 seconds after the first call had begun
C36_Witness ==
    /\ ExhaustedCall(hist)
    /\ hist.k = 2
    /\ Len(hist.reqs) = 3
    /\ hist.reqs[1].at = StartTime + 19
    /\ now = StartTime + 34
    /\ GamelogFetchNeeded
    /\ ~refreshes.all_ok
\* C32: after a call that wrote the cache file, whether the write completed or
\* failed, loading the file gives the document a load gave before the write or
\* the document that was being written
C32_SaveLeavesOldOrNew ==
    [][ hist'.writes > 0 =>
          LET loaded == load_cache(disk', EmptyDoc)
          IN  \/ loaded = load_cache(disk, EmptyDoc)
              \/ saved'.some /\ loaded = saved'.doc
    ]_vars
CallRank(f) ==
    CASE f.pc = "done" -> 0
      [] f.pc = "idle" -> 12
      [] f.pc = "lookup" -> 1
      [] f.pc = "attempt" /\ f.part = "league_gamelog" -> 8 - 2 * f.attempt
      [] f.pc = "sleep" -> 7 - 2 * f.attempt
      [] f.pc = "next" -> 3 * Len(f.todo) + 1
      [] f.pc = "count" -> 3 * Len(f.todo) + 2
      [] f.pc = "attempt" /\ f.team # "" -> 3 * Len(f.todo) + 3
      [] OTHER -> 3 * Len(f.todo) + 2

\* C33: every call returns, whatever requests fail: each step of a thread
\* brings its call nearer to its return (the steps the call can still take are
\* fewer after it and never fewer than none), every position but the return has
\* a next step, and each step takes a bounded time; a get_player_stats call
\* sends at most 3 requests and sleeps at most twice, a get_remaining_games call
\* sends at most one request without any loop, a bulk call over two teams at
\* most three
C33_EveryCallTerminates ==
    [][ /\ \E p \in {"T1", "T2"} :
               /\ ret'[p].pc # ret[p].pc
               /\ \A q \in {"T1", "T2"} \ {p} :
                      /\ ret'[q].pc = ret[q].pc
                      /\ ret'[q].attempt = ret[q].attempt
                      /\ ret'[q].todo = ret[q].todo
        /\ \A p \in {"T1", "T2"} :
               /\ CallRank(ret'[p]) >= 0
               /\ ret'[p].pc # ret[p].pc => CallRank(ret'[p]) < CallRank(ret[p])
               /\ ret'[p].pc \in {"idle", "next", "attempt", "sleep", "lookup", "count", "done"}
               /\ ret'[p].pc = "attempt" => ret'[p].part \in {"league_gamelog", "schedule"}
               /\ ret'[p].attempt <= 2
               /\ ret'[p].op = "get_player_stats" => ret'[p].sent <= 3
               /\ ret'[p].op = "get_remaining_games" => ret'[p].sent <= 1
               /\ ret'[p].op = "get_remaining_games_bulk" => ret'[p].sent <= 3
               /\ ret'[p].part = "schedule" => ret'[p].attempt = 0
        /\ now' >= now
        /\ now' - now <= 10
        /\ Len(hist'.sleeps) + Len(hist'.reqs) <= 1
    ]_vars

\* C33 witness: both calls have returned after every request of theirs failed,
\* a get_player_stats call after three requests and two sleeps and a bulk call
\* after three requests
C33_Witness ==
    /\ hist.op = "step"
    /\ ret["T1"].pc = "done" /\ ret["T2"].pc = "done"
    /\ ret["T1"].op = "get_player_stats" /\ ret["T1"].sent = 3 /\ ret["T1"].attempt = 2
    /\ ret["T2"].op = "get_remaining_games_bulk" /\ ret["T2"].sent = 3
    /\ Unset(cache_data.league_gamelog.updated_at)
    /\ Unset(cache_data.schedule.updated_at)

\* the schedule cache file holds a cached_at less than 24 hours before t
CachedScheduleUsable(file, t) ==
    /\ file.kind = "json"
    /\ file.value.t = "object"
    /\ "cached_at" \in DOMAIN ParseObject(file.value.m)
    /\ IsIsoText(ParseObject(file.value.m)["cached_at"])
    /\ t - fromisoformat(ParseObject(file.value.m)["cached_at"]) < 86400
    /\ "teams" \in DOMAIN ParseObject(file.value.m)

\* C40: the stand-alone NBAScheduleClient issues its one schedule request at
\* construction exactly when the cache file is missing, unreadable or 24 hours
\* old or more; when that request fails the in-memory schedule is empty, whatever
\* schedule the file holds, and the file is what it was; a get_remaining_games
\* on the empty schedule returns 0, issues no request and changes nothing
C40_FailedFetchLeavesScheduleEmpty ==
    [][ /\ (hist'.op = "NBAScheduleClient" /\ hist'.k = hist.k + 1) =>
               /\ (hist'.reqs # <<>>) <=> ~CachedScheduleUsable(disk, now)
               /\ Len(hist'.reqs) <= 1
               /\ hist'.sleeps = <<>>
               /\ (hist'.reqs # <<>> /\ hist'.fetched = {}) =>
                      /\ cache_data' = EmptyMap
                      /\ disk' = disk
                      /\ hist'.writes = 0
        /\ (hist'.op = "get_remaining_games" /\ hist'.k = hist.k + 1) =>
               /\ hist'.reqs = <<>>
               /\ cache_data' = cache_data
               /\ disk' = disk
               /\ cache_data = EmptyMap => ret'.value = 0
    ]_vars

\* C40 witness: a second client constructed on day 1 or later over a file cached at
\* 00:10 of day 0 issued one request, which failed: its schedule is empty and the
\* file still holds the day-0 schedule, in which LAL has games left on days 1..6
C40_Witness ==
    /\ hist.op = "NBAScheduleClient"
    /\ hist.k >= 1
    /\ Len(hist.reqs) = 1
    /\ hist.fetched = {}
    /\ hist.writes = 0
    /\ cache_data = EmptyMap
    /\ disk.kind = "json"
    /\ "cached_at" \in DOMAIN ParseObject(disk.value.m)
    /\ ParseObject(disk.value.m)["cached_at"] = Yesterday0010
    /\ now >= StartTime
    /\ LET teams == ParseObject(ParseObject(disk.value.m)["teams"])
       IN  /\ "LAL" \in DOMAIN teams
           /\ count_remaining(teams["LAL"], 1, 6, DateOf(now)) > 0

====
